---- MODULE Spec2Model ----
(***************************************************************************)
(* GPS-based date and time clock, sketch v2.5.20250308.                    *)
(*                                                                         *)
(* A String is a sequence of one-character strings.  The controller is a   *)
(* single thread: setup() once, then loop() for ever.  One pass of loop()  *)
(* is two steps, the serial part (lines 177-182) and the switch part       *)
(* (lines 184-207).  The sendRegister calls made during a step are         *)
(* recorded, in order, in the variable wire, one tuple of six bytes each;  *)
(* sendRegister gives the pin events of one call and Pins those of a step. *)
(* A function checked on its own has its name and arguments in call and    *)
(* what it returned in ret.                                                *)
(* Where the switches are followed from step to step, switches holds the   *)
(* levels of the DST, date-order and Julian pins, and one pass of loop()   *)
(* is taken apart into the steps of parseGPSData and displayDateAndTime.   *)
(***************************************************************************)
EXTENDS Integers, Sequences, FiniteSets, TLC

VARIABLES pc, timeZoneOffsetHours, timeZoneOffsetMinutes, calendarConfiguration,
          julianDateConfiguration, dateStr, julianDays, data, gps, rows,
          partsTop, wire, csPin, call, ret, switches

vars == <<pc, timeZoneOffsetHours, timeZoneOffsetMinutes, calendarConfiguration,
          julianDateConfiguration, dateStr, julianDays, data, gps, rows,
          partsTop, wire, csPin, call, ret, switches>>

(***************************************************************************)
(* Bounds of the input space.                                              *)
(***************************************************************************)
\* UTC hours 0..MaxHour and 23 are sent by the receiver.
MaxHour == 5
\* The first MaxDay days and the last day of a month are sent.
MaxDay == 1
\* The months 1 .. MaxMonth and 12 are sent.
MaxMonth == 3
\* The years 2000 and 2024 .. 2024 + NumYears - 1 are sent.
NumYears == 2
\* Sentences of 2 .. MaxFields comma-separated fields are sent.
MaxFields == 14
\* daysInMonth is called on its own with the years FirstYear .. LastYear.
FirstYear == 1599
LastYear == 2401

(***************************************************************************)
(* Program constants.                                                      *)
(***************************************************************************)
LOW == 0
HIGH == 1
REG_DECODE == 9
REG_INTENSITY == 10
REG_SCAN_LIMIT == 11
REG_SHUTDOWN == 12
REG_DISP_TEST == 15
daylightSavingsTimeOn == -4
daylightSavingsTimeOff == -5
\* String parts[13]
PartsSize == 13

\* The table with the hexadecimal values its comments give for 6 and 9.
sevenSegmentDigits_asCommented == <<126, 48, 109, 121, 51, 91, 31, 112, 127, 115>>
\* The table with the decimal point as the lowest bit: every pattern one bit up.
sevenSegmentDigits_dpLowest == <<252, 96, 218, 242, 102, 182, 190, 224, 254, 246>>
sevenSegmentDigits == <<126, 48, 109, 121, 51, 91, 95, 112, 127, 123>>
\* The position table in ascending order.
sevenSegmentPosition_ascending == <<1, 2, 3, 4, 5, 6, 7, 8>>
sevenSegmentPosition == <<8, 7, 6, 5, 4, 3, 2, 1>>

(***************************************************************************)
(* C integer arithmetic: / and % truncate toward zero.                     *)
(***************************************************************************)
CDiv(a, b) == IF a >= 0 THEN a \div b ELSE -((-a) \div b)
CMod(a, b) == a - b * CDiv(a, b)

(***************************************************************************)
(* Arduino String.                                                         *)
(***************************************************************************)
NUL == "NUL"
DigitChars == <<"0", "1", "2", "3", "4", "5", "6", "7", "8", "9">>
IsDigit(c) == \E d \in 1..10 : DigitChars[d] = c
DigitVal(c) == (CHOOSE d \in 1..10 : DigitChars[d] = c) - 1

\* The characters of the codes 32 .. 126 (the double quote, the backslash and the
\* backtick by name), and a byte with the top bit set.
Ascii ==
    <<" ", "!", "QUOTE", "#", "$", "%", "&", "'", "(", ")", "*", "+",
      ",", "-", ".", "/", "0", "1", "2", "3", "4", "5", "6", "7",
      "8", "9", ":", ";", "<", "=", ">", "?", "@", "A", "B", "C",
      "D", "E", "F", "G", "H", "I", "J", "K", "L", "M", "N", "O",
      "P", "Q", "R", "S", "T", "U", "V", "W", "X", "Y", "Z", "[",
      "BACKSLASH", "]", "^", "_", "BACKTICK", "a", "b", "c", "d", "e", "f", "g",
      "h", "i", "j", "k", "l", "m", "n", "o", "p", "q", "r", "s",
      "t", "u", "v", "w", "x", "y", "z", "{", "|", "}", "~">>
HighByte == "0xB0"

\* A char as the int the comparisons see: char is signed, so the byte 0xB0 is -80.
CharCode(c) ==
    IF c = NUL THEN 0
    ELSE IF \E k \in 1..95 : Ascii[k] = c THEN 31 + (CHOOSE k \in 1..95 : Ascii[k] = c)
    ELSE -80

\* String::substring(left, right): the characters left .. right-1, 0-based.
substring(s, left, right) ==
    LET l == IF left > right THEN right ELSE left
        r0 == IF left > right THEN left ELSE right
        r == IF r0 > Len(s) THEN Len(s) ELSE r0
    IN  IF l >= Len(s) THEN <<>> ELSE SubSeq(s, l + 1, r)

\* String::charAt(i): 0 beyond the end.
charAt(s, i) == IF i >= Len(s) THEN NUL ELSE s[i + 1]

startsWith(s, prefix) ==
    Len(s) >= Len(prefix) /\ SubSeq(s, 1, Len(prefix)) = prefix

RECURSIVE atolDigits(_, _, _)
atolDigits(s, i, acc) ==
    IF i > Len(s) \/ ~IsDigit(s[i]) THEN acc
    ELSE atolDigits(s, i + 1, acc * 10 + DigitVal(s[i]))

\* String::toInt(): atol, an optional sign then the leading digits, else 0.
toInt(s) ==
    IF s = <<>> THEN 0
    ELSE IF s[1] = "-" THEN -atolDigits(s, 2, 0)
    ELSE IF s[1] = "+" THEN atolDigits(s, 2, 0)
    ELSE atolDigits(s, 1, 0)

RECURSIVE utoa(_)
utoa(n) == IF n < 10 THEN <<DigitChars[n + 1]>>
           ELSE utoa(n \div 10) \o <<DigitChars[(n % 10) + 1]>>

\* String(int): decimal, with a minus sign for negative values.
StringOf(n) == IF n < 0 THEN <<"-">> \o utoa(-n) ELSE utoa(n)

(***************************************************************************)
(* Calendar.  A read beyond the 12-entry table yields whatever the stack   *)
(* holds there: junk.                                                      *)
(***************************************************************************)
MonthTable == <<31, 28, 31, 30, 31, 30, 31, 31, 30, 31, 30, 31>>

\* February has 29 days in every fourth year.
daysInMonth_everyFourth(month, year, junk) ==
    IF month = 2 /\ CMod(year, 4) = 0
    THEN 29
    ELSE IF month \in 1..12 THEN MonthTable[month] ELSE junk

daysInMonth(month, year, junk) ==
    IF month = 2 /\ ((CMod(year, 4) = 0 /\ CMod(year, 100) # 0) \/ CMod(year, 400) = 0)
    THEN 29
    ELSE IF month \in 1..12 THEN MonthTable[month] ELSE junk

\* v2.1.20240531: the table is copied, entry 1 is set to 29 in a leap year.
daysInMonth_v2_1(month, year, junk) ==
    IF month \in 1..12
    THEN (IF ((CMod(year, 4) = 0 /\ CMod(year, 100) # 0) \/ CMod(year, 400) = 0)
          THEN [MonthTable EXCEPT ![2] = 29] ELSE MonthTable)[month]
    ELSE junk

\* v2.0.20240427: the same function.
daysInMonth_v2_0(month, year, junk) ==
    IF month \in 1..12
    THEN (IF ((CMod(year, 4) = 0 /\ CMod(year, 100) # 0) \/ CMod(year, 400) = 0)
          THEN [MonthTable EXCEPT ![2] = 29] ELSE MonthTable)[month]
    ELSE junk

\* The year, month and day read back from a date string in the current order.
DateFields(date, cal) ==
    IF cal = 1
    THEN [year |-> toInt(substring(date, 0, 4)),
          month |-> toInt(substring(date, 4, 6)),
          day |-> toInt(substring(date, 6, 8))]
    ELSE [year |-> toInt(substring(date, 4, 8)),
          month |-> toInt(substring(date, 0, 2)),
          day |-> toInt(substring(date, 2, 4))]

\* The loop run up to and including the month of the date.
RECURSIVE SumMonths_inclusive(_, _, _, _)
SumMonths_inclusive(cnt, month, year, junk) ==
    IF cnt <= month
    THEN daysInMonth(cnt, year, junk) + SumMonths_inclusive(cnt + 1, month, year, junk)
    ELSE 0

RECURSIVE SumMonths(_, _, _, _)
SumMonths(cnt, month, year, junk) ==
    IF cnt < month THEN daysInMonth(cnt, year, junk) + SumMonths(cnt + 1, month, year, junk)
    ELSE 0

getNumberOfJulianDays(date, cal, junk) ==
    LET f == DateFields(date, cal)
    IN  SumMonths(1, f.month, f.year, junk) + f.day

\* The months daysInMonth is called with by getNumberOfJulianDays.
JulianMonths(date, cal) == 1 .. (DateFields(date, cal).month - 1)

\* The step back with the year left alone at 1 January.
StepBack_keepYear(year, month, day, junk) ==
    IF day - 1 # 0
    THEN [year |-> year, month |-> month, day |-> day - 1, looked |-> {}]
    ELSE IF month - 1 # 0
    THEN [year |-> year, month |-> month - 1,
          day |-> daysInMonth(month - 1, year, junk), looked |-> {month - 1}]
    ELSE [year |-> year, month |-> 12,
          day |-> daysInMonth(12, year, junk), looked |-> {12}]

\* Lines 161-169, and again lines 381-390: year, month and day one day back,
\* and the month whose length was looked up.
StepBack(year, month, day, junk) ==
    IF day - 1 # 0
    THEN [year |-> year, month |-> month, day |-> day - 1, looked |-> {}]
    ELSE IF month - 1 # 0
    THEN [year |-> year, month |-> month - 1,
          day |-> daysInMonth(month - 1, year, junk), looked |-> {month - 1}]
    ELSE [year |-> year - 1, month |-> 12,
          day |-> daysInMonth(12, year - 1, junk), looked |-> {12}]

\* adjustDate steps local copies of year, month and day back by one day and
\* returns; nothing is stored back into the string it was given by reference.
adjustDate(date, localHours, utcHours, junk) ==
    LET locals == IF localHours < utcHours
                  THEN StepBack(toInt(substring(date, 0, 4)), toInt(substring(date, 4, 6)),
                                toInt(substring(date, 6, 8)), junk)
                  ELSE [year |-> toInt(substring(date, 0, 4)),
                        month |-> toInt(substring(date, 4, 6)),
                        day |-> toInt(substring(date, 6, 8)), looked |-> {}]
    IN  date

(***************************************************************************)
(* Chip driver.                                                            *)
(***************************************************************************)
charToSevenSegment(character) ==
    IF CharCode(character) >= CharCode("0") /\ CharCode(character) <= CharCode("9")
    THEN sevenSegmentDigits[CharCode(character) - CharCode("0") + 1]
    ELSE 0

\* shiftOut(DIN, CLK, MSBFIRST, val): eight clocked data bits, bit 7 first.
shiftOut(val) == [k \in 1..8 |-> <<"DIN", (val \div (2 ^ (8 - k))) % 2>>]

\* Chip-select raised before the last byte is shifted.
sendRegister_earlyLatch(opcodeJDays, dataJDays, opcodeTime, dataTime, opcodeDate, dataDate) ==
    <<<<"CS", LOW>>>>
    \o shiftOut(opcodeJDays) \o shiftOut(dataJDays)
    \o shiftOut(opcodeTime) \o shiftOut(dataTime)
    \o shiftOut(opcodeDate) \o <<<<"CS", HIGH>>>> \o shiftOut(dataDate)

\* The date pair shifted out first and the day-of-year pair last.
sendRegister_dateFirst(opcodeJDays, dataJDays, opcodeTime, dataTime, opcodeDate, dataDate) ==
    <<<<"CS", LOW>>>>
    \o shiftOut(opcodeDate) \o shiftOut(dataDate)
    \o shiftOut(opcodeTime) \o shiftOut(dataTime)
    \o shiftOut(opcodeJDays) \o shiftOut(dataJDays)
    \o <<<<"CS", HIGH>>>>

sendRegister(opcodeJDays, dataJDays, opcodeTime, dataTime, opcodeDate, dataDate) ==
    <<<<"CS", LOW>>>>
    \o shiftOut(opcodeJDays) \o shiftOut(dataJDays)
    \o shiftOut(opcodeTime) \o shiftOut(dataTime)
    \o shiftOut(opcodeDate) \o shiftOut(dataDate)
    \o <<<<"CS", HIGH>>>>

\* The pin events of a sequence of sendRegister calls.
RECURSIVE Pins(_)
Pins(calls) ==
    IF calls = <<>> THEN <<>>
    ELSE sendRegister(calls[1][1], calls[1][2], calls[1][3], calls[1][4],
                      calls[1][5], calls[1][6]) \o Pins(Tail(calls))

RECURSIVE clearFrom(_)
clearFrom(i) ==
    IF i < 8 THEN <<<<i + 1, 0, i + 1, 0, i + 1, 0>>>> \o clearFrom(i + 1)
    ELSE <<>>

\* The loop started at i = 1: register 1 is left as it was.
clearLEDRegisters_from1 == clearFrom(1)

clearLEDRegisters == clearFrom(0)

\* The scan limit of the time chip set to all eight digits.
initializeMax7219_scanAll ==
    <<<<REG_SCAN_LIMIT, 5, REG_SCAN_LIMIT, 7, REG_SCAN_LIMIT, 7>>,
      <<REG_DECODE, 0, REG_DECODE, 0, REG_DECODE, 0>>,
      <<REG_SHUTDOWN, 1, REG_SHUTDOWN, 1, REG_SHUTDOWN, 1>>,
      <<REG_DISP_TEST, 0, REG_DISP_TEST, 0, REG_DISP_TEST, 0>>,
      <<REG_INTENSITY, 0, REG_INTENSITY, 10, REG_INTENSITY, 11>>>>
    \o clearLEDRegisters

initializeMax7219 ==
    <<<<REG_SCAN_LIMIT, 5, REG_SCAN_LIMIT, 5, REG_SCAN_LIMIT, 7>>,
      <<REG_DECODE, 0, REG_DECODE, 0, REG_DECODE, 0>>,
      <<REG_SHUTDOWN, 1, REG_SHUTDOWN, 1, REG_SHUTDOWN, 1>>,
      <<REG_DISP_TEST, 0, REG_DISP_TEST, 0, REG_DISP_TEST, 0>>,
      <<REG_INTENSITY, 0, REG_INTENSITY, 10, REG_INTENSITY, 11>>>>
    \o clearLEDRegisters

\* The level of the chip-select pin after the pin events w, from level cs.
RECURSIVE LastCS(_, _)
LastCS(cs, w) ==
    IF w = <<>> THEN cs
    ELSE IF w[Len(w)][1] = "CS" THEN w[Len(w)][2]
    ELSE LastCS(cs, SubSeq(w, 1, Len(w) - 1))

\* The level of the chip-select pin after the calls, from level cs.
CSAfter(cs, calls) ==
    IF calls = <<>> THEN cs ELSE LastCS(cs, Pins(<<calls[Len(calls)]>>))

(***************************************************************************)
(* The three MAX7219 on the pins (lines 329-347): a chain of three 16-bit  *)
(* shift stages.  A bit clocked in at DIN enters the nearest chip and      *)
(* pushes every bit one place on, out of the nearest chip into the middle  *)
(* one and out of that into the farthest; on the rising edge of            *)
(* chip-select each chip latches the 16 bits it holds, D15 .. D8 the       *)
(* opcode and D7 .. D0 the data.  Bits 1..16 of the chain are the farthest *)
(* chip, D15 first, bits 17..32 the middle chip, bits 33..48 the nearest.  *)
(***************************************************************************)
Chips == <<"far", "mid", "near">>

ChainEmpty == [k \in 1..48 |-> 0]

\* What the chain had latched last when the pin events w[k..] are over.
RECURSIVE LatchChain(_, _, _, _, _)
LatchChain(w, k, sr, cs, latched) ==
    IF k > Len(w) THEN latched
    ELSE IF w[k][1] = "DIN"
    THEN LatchChain(w, k + 1, Tail(sr) \o <<w[k][2]>>, cs, latched)
    ELSE LatchChain(w, k + 1, sr, w[k][2],
                    IF cs = LOW /\ w[k][2] = HIGH THEN sr ELSE latched)

ChainByte(sr, from) ==
    128 * sr[from] + 64 * sr[from + 1] + 32 * sr[from + 2] + 16 * sr[from + 3]
    + 8 * sr[from + 4] + 4 * sr[from + 5] + 2 * sr[from + 6] + sr[from + 7]

\* Opcode and data latched by chip n (1 the farthest) out of the chain word.
ChipPairOf(sr, n) == <<ChainByte(sr, 16 * n - 15), ChainByte(sr, 16 * n - 7)>>

\* What the three chips latch in one sendRegister call, the farthest first.
Latched(bytes) ==
    [n \in 1..3 |-> ChipPairOf(LatchChain(Pins(<<bytes>>), 1, ChainEmpty, HIGH, ChainEmpty), n)]

(***************************************************************************)
(* displayDateAndTime: the three rows and the eight combined writes.       *)
(***************************************************************************)
TwoDigits(n) == StringOf(CDiv(n, 10)) \o StringOf(CMod(n, 10))

\* The date put together year first whatever the switch says.
DateRow_yearFirst(year, month, day, cal) ==
    StringOf(year) \o TwoDigits(month) \o TwoDigits(day)

\* Lines 394-399: the date string put together again.
DateRow(year, month, day, cal) ==
    IF cal = 1 THEN StringOf(year) \o TwoDigits(month) \o TwoDigits(day)
    ELSE TwoDigits(month) \o TwoDigits(day) \o StringOf(year)

BackRow(s, numberOfDays, cal) ==
    [date |-> DateRow(s.year, s.month, s.day, cal),
     numberOfDays |-> numberOfDays - 1,
     months |-> s.looked]

StepBackFields(f, junk) == StepBack(f.year, f.month, f.day, junk)

\* Lines 367-399: the date one day back and the day count one less.
BackOneDay(date, numberOfDays, cal, junk) ==
    BackRow(StepBackFields(DateFields(date, cal), junk), numberOfDays, cal)

\* The band as line 365 had it: 20 .. 23 whatever the offset.
InBand_from20(hours, tz) == hours >= 20 /\ hours < 24

\* Line 366: the local hour lies in the band 24 + offset .. 23.
InBand(hours, tz) == hours >= 24 + tz /\ hours < 24

\* Lines 406-441: the padding in front of the day count.
JulianPad(yy, n, numberOfDays, jul) ==
    IF jul = 1
    THEN IF numberOfDays < 10 THEN <<"0", "0">> \o yy \o <<"0", "0">> \o n
         ELSE IF numberOfDays < 100 THEN <<"0", "0">> \o yy \o <<"0">> \o n
         ELSE <<"0", "0">> \o yy \o n
    ELSE IF numberOfDays < 10 THEN <<"0", "0", "0", "0">> \o n
         ELSE IF numberOfDays < 100 THEN <<"0", "0", "0">> \o n
         ELSE <<"0", "0">> \o n

JulianString(date, numberOfDays, cal, jul) ==
    JulianPad(IF cal = 1 THEN substring(date, 2, 4) ELSE substring(date, 6, 8),
              StringOf(numberOfDays), numberOfDays, jul)

\* Line 447.
TimeString(hours, minutes, seconds) ==
    <<"0", "0">> \o TwoDigits(hours) \o TwoDigits(minutes) \o TwoDigits(seconds)

\* Lines 451-461: one combined write per string index i.
RECURSIVE FrameFrom(_, _, _, _)
FrameFrom(i, timeStr, date, jdays) ==
    IF i < 8
    THEN <<<<sevenSegmentPosition[i + 1], charToSevenSegment(charAt(jdays, i)),
             sevenSegmentPosition[i + 1], charToSevenSegment(charAt(timeStr, i)),
             sevenSegmentPosition[i + 1], charToSevenSegment(charAt(date, i))>>>>
         \o FrameFrom(i + 1, timeStr, date, jdays)
    ELSE <<>>

Frame(timeStr, date, jdays, months) ==
    [julianDays |-> jdays, months |-> months,
     rows |-> [time |-> timeStr, date |-> date, julian |-> jdays],
     wire |-> FrameFrom(0, timeStr, date, jdays)]

Rows(timeStr, b, cal, jul) ==
    Frame(timeStr, b.date, JulianString(b.date, b.numberOfDays, cal, jul), b.months)

displayDateAndTime(date, hours0, minutes, seconds, numberOfDays0, tz, cal, jul, junk) ==
    Rows(TimeString(CMod(hours0, 24), minutes, seconds),
         IF InBand(CMod(hours0, 24), tz) THEN BackOneDay(date, numberOfDays0, cal, junk)
         ELSE [date |-> date, numberOfDays |-> numberOfDays0, months |-> {}],
         cal, jul)

(***************************************************************************)
(* setup() of each revision as the statements it runs, in order: the two   *)
(* serial ports begun, pinMode(pin, mode), and the register writes of      *)
(* initializeMax7219, one entry per call of the write function.            *)
(***************************************************************************)
pinMode(pin, mode) == <<"pinMode", pin, mode>>
begin(port) == <<"begin", port>>
Written(calls) == [k \in 1..Len(calls) |-> <<"write", calls[k]>>]

\* The two-chip clear loop and initialisation of the first sketch and v2.0.
clearLEDRegisters_v2_0 == [i \in 1..8 |-> <<i, 0, i, 0>>]
initializeMax7219_v2_0 ==
    <<<<REG_SCAN_LIMIT, 5, REG_SCAN_LIMIT, 7>>,
      <<REG_DECODE, 0, REG_DECODE, 0>>,
      <<REG_SHUTDOWN, 1, REG_SHUTDOWN, 1>>,
      <<REG_DISP_TEST, 0, REG_DISP_TEST, 0>>,
      <<REG_INTENSITY, 6, REG_INTENSITY, 7>>>>
    \o clearLEDRegisters_v2_0
initializeMax7219_v1 == initializeMax7219_v2_0

\* v2.1: three chips, scan limit 4 for the day-of-year chip.
initializeMax7219_v2_1 ==
    <<<<REG_SCAN_LIMIT, 4, REG_SCAN_LIMIT, 5, REG_SCAN_LIMIT, 7>>,
      <<REG_DECODE, 0, REG_DECODE, 0, REG_DECODE, 0>>,
      <<REG_SHUTDOWN, 1, REG_SHUTDOWN, 1, REG_SHUTDOWN, 1>>,
      <<REG_DISP_TEST, 0, REG_DISP_TEST, 0, REG_DISP_TEST, 0>>,
      <<REG_INTENSITY, 0, REG_INTENSITY, 10, REG_INTENSITY, 11>>>>
    \o clearLEDRegisters

setup_v1 ==
    <<begin("Serial")>>
    \o Written(initializeMax7219_v1)
    \o <<begin("gpsSerial"),
         pinMode("DST_PIN", "INPUT"),
         pinMode("MAX7219_CLK", "OUTPUT"),
         pinMode("MAX7219_CS", "OUTPUT"),
         pinMode("MAX7219_DIN", "OUTPUT")>>

setup_v2_0 ==
    <<begin("Serial"),
      pinMode("MAX7219_CLK", "OUTPUT"),
      pinMode("MAX7219_CS", "OUTPUT"),
      pinMode("MAX7219_DIN", "OUTPUT"),
      pinMode("COLON_PIN", "OUTPUT"),
      pinMode("DST_PIN", "INPUT")>>
    \o Written(initializeMax7219_v2_0)
    \o <<begin("gpsSerial")>>

setup_v2_1 ==
    <<begin("Serial"), begin("gpsSerial"),
      pinMode("MAX7219_CLK", "OUTPUT"),
      pinMode("MAX7219_CS", "OUTPUT"),
      pinMode("MAX7219_DIN", "OUTPUT"),
      pinMode("COLON_PIN", "OUTPUT"),
      pinMode("DST_PIN", "INPUT")>>
    \o Written(initializeMax7219_v2_1)

\* v2.5, lines 138-150.
setup ==
    <<begin("Serial"), begin("gpsSerial"),
      pinMode("MAX7219_CLK", "OUTPUT"),
      pinMode("MAX7219_CS", "OUTPUT"),
      pinMode("MAX7219_DIN", "OUTPUT"),
      pinMode("COLON_PIN", "OUTPUT"),
      pinMode("DST_PIN", "INPUT"),
      pinMode("CAL_CONF_PIN", "INPUT"),
      pinMode("JUL_DATE_PIN", "INPUT")>>
    \o Written(initializeMax7219)

(***************************************************************************)
(* The send loop of each revision, pass by pass: the indices at which the  *)
(* position table is read and the bytes handed to the write function.  A   *)
(* read beyond the eight entries of the table yields junk.                 *)
(***************************************************************************)
positionAt(i, junk) == IF i \in 0..7 THEN sevenSegmentPosition[i + 1] ELSE junk

\* The first sketch: address1 is read at i and address2 at i + 1, the date
\* character at i and the time character at i + 1; the time pair is written
\* first.
Pass_v1(i, string1, string2, junk) ==
    [reads |-> {i, i + 1},
     bytes |-> <<positionAt(i + 1, junk), charToSevenSegment(charAt(string2, i + 1)),
                 positionAt(i, junk), charToSevenSegment(charAt(string1, i))>>]

\* v2.0.20240427: two chips.
Pass_v2_0(i, timeStr, date, junk) ==
    [reads |-> {i},
     bytes |-> <<positionAt(i, junk), charToSevenSegment(charAt(timeStr, i)),
                 positionAt(i, junk), charToSevenSegment(charAt(date, i))>>]

\* v2.1.20240531: three chips.
Pass_v2_1(i, timeStr, date, jdays, junk) ==
    [reads |-> {i},
     bytes |-> <<positionAt(i, junk), charToSevenSegment(charAt(jdays, i)),
                 positionAt(i, junk), charToSevenSegment(charAt(timeStr, i)),
                 positionAt(i, junk), charToSevenSegment(charAt(date, i))>>]

\* v2.5.20250308, lines 451-461.
Pass(i, timeStr, date, jdays) ==
    [reads |-> {i}, bytes |-> Head(FrameFrom(i, timeStr, date, jdays))]

\* for (int i = 0; i < 8; i++) of each revision.
sendLoop_v1(string1, string2, junk) ==
    [k \in 1..8 |-> Pass_v1(k - 1, string1, string2, junk)]
sendLoop_v2_0(timeStr, date, junk) ==
    [k \in 1..8 |-> Pass_v2_0(k - 1, timeStr, date, junk)]
sendLoop_v2_1(timeStr, date, jdays, junk) ==
    [k \in 1..8 |-> Pass_v2_1(k - 1, timeStr, date, jdays, junk)]
sendLoop(timeStr, date, jdays) ==
    [k \in 1..8 |-> Pass(k - 1, timeStr, date, jdays)]

(***************************************************************************)
(* parseGPSData.                                                           *)
(***************************************************************************)
\* Lines 220-229: one field stored per comma and one after the loop.  The
\* result holds every field stored, those beyond the array included.
RECURSIVE SplitFrom(_, _, _, _)
SplitFrom(d, i, commaIndex, parts) ==
    IF i < Len(d)
    THEN IF d[i + 1] = ","
         THEN SplitFrom(d, i + 1, i + 1, Append(parts, substring(d, commaIndex, i)))
         ELSE SplitFrom(d, i + 1, commaIndex, parts)
    ELSE Append(parts, substring(d, commaIndex, Len(d)))

\* parts[k]: an element never stored is an empty String.
PartAt(parts, k) == IF k < Len(parts) THEN parts[k + 1] ELSE <<>>

\* Lines 235-240.
MakeDateStr(p9, cal) ==
    IF cal = 1
    THEN <<"2", "0">> \o substring(p9, 4, 6) \o substring(p9, 2, 4) \o substring(p9, 0, 2)
    ELSE substring(p9, 2, 4) \o substring(p9, 0, 2) \o <<"2", "0">> \o substring(p9, 4, 6)

\* Lines 259-264 without the 24 hours added.
Wrap_noAdd(utcHours, localHours, minutes, seconds) ==
    [utcHours |-> utcHours, underflow |-> localHours < 0,
     localHours |-> localHours, minutes |-> minutes, seconds |-> seconds]

\* Lines 259-264: an hour below 0 is brought back into the day.
Wrap(utcHours, localHours, minutes, seconds) ==
    [utcHours |-> utcHours, underflow |-> localHours < 0,
     localHours |-> IF localHours < 0 THEN localHours + 24 ELSE localHours,
     minutes |-> minutes, seconds |-> seconds]

\* Lines 246-253: minutes beyond the hour are carried into the hours.
Carry(utcHours, localHours, minutes, seconds) ==
    IF minutes >= 60 THEN Wrap(utcHours, localHours + 1, minutes - 60, seconds)
    ELSE IF minutes < 0 THEN Wrap(utcHours, localHours - 1, minutes + 60, seconds)
    ELSE Wrap(utcHours, localHours, minutes, seconds)

\* Lines 241-244 with the offset added the other way round, as east of
\* Greenwich.
LocalFrom_east(utcHours, minutes, seconds, tz, tzMin) ==
    Carry(utcHours, utcHours - tz, minutes + tzMin, seconds)

\* Lines 241-244.
LocalFrom(utcHours, minutes, seconds, tz, tzMin) ==
    Carry(utcHours, utcHours + tz, minutes + tzMin, seconds)

\* Lines 233 and 241-264: local hours, minutes and seconds.
LocalOf(timeStrUTC, tz, tzMin) ==
    LocalFrom(toInt(substring(timeStrUTC, 0, 2)), toInt(substring(timeStrUTC, 2, 4)),
              toInt(substring(timeStrUTC, 4, 6)), tz, tzMin)

LocalTime(p1, tz, tzMin) ==
    LocalOf(substring(p1, 0, 2) \o substring(p1, 2, 4) \o substring(p1, 4, 6), tz, tzMin)

Tag == <<"$", "G", "P", "R", "M", "C">>

\* The tag alone, the validity flag not looked at.
IsValidFix_anyFlag(d, parts) == startsWith(d, Tag)

\* Lines 179, 218 and 232: the tag and the validity flag.
IsValidFix(d, parts) == startsWith(d, Tag) /\ PartAt(parts, 2) = <<"A">>
NoRows == [time |-> <<>>, date |-> <<>>, julian |-> <<>>]

\* Lines 265-269: the day count, and the display.
Show(t, ds, top, tz, cal, jul, junk) ==
    [shown |-> TRUE, dateStr |-> ds, partsTop |-> top, counted |-> JulianMonths(ds, cal),
     disp |-> displayDateAndTime(ds, t.localHours, t.minutes, t.seconds,
                                 getNumberOfJulianDays(ds, cal, junk), tz, cal, jul, junk)]

\* Lines 259-264.
Resolve(t, ds0, top, tz, cal, jul, junk) ==
    Show(t, IF t.underflow THEN adjustDate(ds0, t.localHours, t.utcHours, junk) ELSE ds0,
         top, tz, cal, jul, junk)

NoDisplay ==
    [julianDays |-> <<>>, months |-> {}, rows |-> NoRows, wire |-> <<>>]

ParseParts(d, parts, tz, tzMin, cal, jul, junk) ==
    IF IsValidFix(d, parts)
    THEN Resolve(LocalTime(PartAt(parts, 1), tz, tzMin), MakeDateStr(PartAt(parts, 9), cal),
                 Len(parts) - 1, tz, cal, jul, junk)
    ELSE [shown |-> FALSE, dateStr |-> <<>>, counted |-> {}, disp |-> NoDisplay,
          partsTop |-> IF startsWith(d, Tag) THEN Len(parts) - 1 ELSE -1]

\* The whole of parseGPSData for the line d: whether displayDateAndTime was
\* called (shown) and, if so, the string assigned to dateStr, what the display
\* did (the string assigned to julianDays, the rows built, the sendRegister
\* calls, the months it looked up), and the months getNumberOfJulianDays
\* looked up; the highest index of parts stored to.
parseGPSData(d, tz, tzMin, cal, jul, junk) ==
    ParseParts(d, SplitFrom(d, 0, 0, <<>>), tz, tzMin, cal, jul, junk)

(***************************************************************************)
(* v2.1.20240531 (src/unnamed/part_000): the same pipeline as that         *)
(* revision has it.  dateStr is a local of parseGPSData, always year       *)
(* first; adjustDate stores the date back; the band of the display is      *)
(* 20 .. 23.                                                               *)
(***************************************************************************)
\* Lines 206-207.
MakeDateStr_v2_1(p9) ==
    <<"2", "0">> \o substring(p9, 4, 6) \o substring(p9, 2, 4) \o substring(p9, 0, 2)

\* Lines 145-153 and 338-347.
StepBack_v2_1(year, month, day, junk) ==
    IF day - 1 # 0
    THEN [year |-> year, month |-> month, day |-> day - 1]
    ELSE IF month - 1 # 0
    THEN [year |-> year, month |-> month - 1,
          day |-> daysInMonth_v2_1(month - 1, year, junk)]
    ELSE [year |-> year - 1, month |-> 12,
          day |-> daysInMonth_v2_1(12, year - 1, junk)]

\* Lines 138-159: the step is taken only if the local hour handed over is
\* below the UTC hour; the string is put together again either way.
Adjusted_v2_1(year, month, day, localHours, utcHours, junk) ==
    IF localHours < utcHours THEN StepBack_v2_1(year, month, day, junk)
    ELSE [year |-> year, month |-> month, day |-> day]

DateString_v2_1(f) == StringOf(f.year) \o TwoDigits(f.month) \o TwoDigits(f.day)

adjustDate_v2_1(date, localHours, utcHours, junk) ==
    DateString_v2_1(Adjusted_v2_1(toInt(substring(date, 0, 4)), toInt(substring(date, 4, 6)),
                                  toInt(substring(date, 6, 8)), localHours, utcHours, junk))

RECURSIVE SumMonths_v2_1(_, _, _, _)
SumMonths_v2_1(cnt, month, year, junk) ==
    IF cnt <= month - 1
    THEN daysInMonth_v2_1(cnt, year, junk) + SumMonths_v2_1(cnt + 1, month, year, junk)
    ELSE 0

\* Lines 242-254.
getNumberOfJulianDays_v2_1(date, junk) ==
    SumMonths_v2_1(1, toInt(substring(date, 4, 6)), toInt(substring(date, 0, 4)), junk)
    + toInt(substring(date, 6, 8))

\* Lines 356-357.
JulianString_v2_1(date, numberOfDays) ==
    <<"0", "0", "0">> \o substring(date, 2, 4)
    \o StringOf(CDiv(numberOfDays, 100)) \o StringOf(CMod(numberOfDays, 100))

Sent_v2_1(timeStr, date, numberOfDays, jdays, junk) ==
    [shown |-> TRUE, time |-> timeStr, date |-> date, numberOfDays |-> numberOfDays,
     julianDays |-> jdays,
     wire |-> [k \in 1..8 |-> sendLoop_v2_1(timeStr, date, jdays, junk)[k].bytes]]

Formatted_v2_1(timeStr, date, numberOfDays, junk) ==
    Sent_v2_1(timeStr, date, numberOfDays, JulianString_v2_1(date, numberOfDays), junk)

\* Lines 329-382.
displayDateAndTime_v2_1(date, hours0, minutes, seconds, numberOfDays0, junk) ==
    IF CMod(hours0, 24) >= 20 /\ CMod(hours0, 24) < 24
    THEN Formatted_v2_1(TimeString(CMod(hours0, 24), minutes, seconds),
                        DateString_v2_1(StepBack_v2_1(toInt(substring(date, 0, 4)),
                                                      toInt(substring(date, 4, 6)),
                                                      toInt(substring(date, 6, 8)), junk)),
                        numberOfDays0 - 1, junk)
    ELSE Formatted_v2_1(TimeString(CMod(hours0, 24), minutes, seconds), date,
                        numberOfDays0, junk)

\* Lines 233-236.
Counted_v2_1(date, localHours, minutes, seconds, junk) ==
    displayDateAndTime_v2_1(date, localHours, minutes, seconds,
                            getNumberOfJulianDays_v2_1(date, junk), junk)

\* Lines 223-230: an hour beyond either end of the day is brought back and
\* adjustDate is called.
Wrap_v2_1(date, utcHours, localHours, minutes, seconds, junk) ==
    IF localHours >= 24
    THEN Counted_v2_1(adjustDate_v2_1(date, localHours - 24, utcHours, junk),
                      localHours - 24, minutes, seconds, junk)
    ELSE IF localHours < 0
    THEN Counted_v2_1(adjustDate_v2_1(date, localHours + 24, utcHours, junk),
                      localHours + 24, minutes, seconds, junk)
    ELSE Counted_v2_1(date, localHours, minutes, seconds, junk)

\* Lines 215-222.
Carry_v2_1(date, utcHours, localHours, minutes, seconds, junk) ==
    IF minutes >= 60 THEN Wrap_v2_1(date, utcHours, localHours + 1, minutes - 60, seconds, junk)
    ELSE IF minutes < 0 THEN Wrap_v2_1(date, utcHours, localHours - 1, minutes + 60, seconds, junk)
    ELSE Wrap_v2_1(date, utcHours, localHours, minutes, seconds, junk)

\* Lines 208-211.
Local_v2_1(timeStrUTC, date, tz, tzMin, junk) ==
    Carry_v2_1(date, toInt(substring(timeStrUTC, 0, 2)),
               toInt(substring(timeStrUTC, 0, 2)) + tz,
               toInt(substring(timeStrUTC, 2, 4)) + tzMin,
               toInt(substring(timeStrUTC, 4, 6)), junk)

NotShown_v2_1 ==
    [shown |-> FALSE, time |-> <<>>, date |-> <<>>, numberOfDays |-> 0,
     julianDays |-> <<>>, wire |-> <<>>]

ParseParts_v2_1(d, parts, tz, tzMin, junk) ==
    IF startsWith(d, Tag) /\ PartAt(parts, 2) = <<"A">>
    THEN Local_v2_1(substring(PartAt(parts, 1), 0, 2) \o substring(PartAt(parts, 1), 2, 4)
                    \o substring(PartAt(parts, 1), 4, 6),
                    MakeDateStr_v2_1(PartAt(parts, 9)), tz, tzMin, junk)
    ELSE NotShown_v2_1

\* Lines 188-239, for a line of at most thirteen fields: whether the display
\* was called and, if so, the time and date strings it built, the day count
\* it formatted, the day-of-year string and the eight sendRegister calls.
parseGPSData_v2_1(d, tz, tzMin, junk) ==
    ParseParts_v2_1(d, SplitFrom(d, 0, 0, <<>>), tz, tzMin, junk)

(***************************************************************************)
(* The GPS receiver: the sentences that arrive on the serial line.         *)
(***************************************************************************)
D2(n) == <<DigitChars[(n \div 10) + 1], DigitChars[(n % 10) + 1]>>

NoFix == [tag |-> "none", t |-> <<0, 0, 0>>, flag |-> "V", d |-> <<0, 0, 0>>, nf |-> 0]

TagOf(fix) == IF fix.tag = "GPRMC" THEN Tag ELSE <<"$", "G", "P", "G", "G", "A">>

\* Field k of the sentence: tag, hhmmss, flag, six empty fields, ddmmyy, ...
FieldOf(fix, k) ==
    IF k = 0 THEN TagOf(fix)
    ELSE IF k = 1 THEN D2(fix.t[1]) \o D2(fix.t[2]) \o D2(fix.t[3])
    ELSE IF k = 2 THEN <<fix.flag>>
    ELSE IF k = 9 THEN D2(fix.d[1]) \o D2(fix.d[2]) \o D2(fix.d[3])
    ELSE <<>>

RECURSIVE JoinFrom(_, _)
JoinFrom(fix, k) ==
    IF k >= fix.nf THEN <<>>
    ELSE IF k = 0 THEN FieldOf(fix, 0) \o JoinFrom(fix, 1)
    ELSE <<",">> \o FieldOf(fix, k) \o JoinFrom(fix, k + 1)

Sentence(fix) == JoinFrom(fix, 0)

Gregorian(m, y) ==
    IF m = 2 THEN (IF y % 4 = 0 /\ (y % 100 # 0 \/ y % 400 = 0) THEN 29 ELSE 28)
    ELSE IF m \in {4, 6, 9, 11} THEN 30 ELSE 31

Years == {0} \cup (24 .. (24 + NumYears - 1))
Months == (1 .. MaxMonth) \cup {12}
Hours == (0 .. MaxHour) \cup {23}

\* Calendar dates <<day, month, year in century>>.
ValidDates ==
    {<<dd, mo, yy>> : dd \in {x \in 1..31 : x <= MaxDay}, mo \in Months, yy \in Years}
    \cup {<<Gregorian(mo, 2000 + yy), mo, yy>> : mo \in Months, yy \in Years}

\* Six digits that are no calendar date.
OddDates == {<<0, 0, 0>>, <<0, 1, 25>>, <<1, 0, 25>>, <<1, 13, 25>>, <<32, 1, 25>>,
             <<99, 99, 99>>}

\* Every date at the hour that lies in the band for one offset and not for
\* the other; every hour and some minutes and seconds on one date; some odd
\* digits; sentences of other lengths, flags and tags.
Fixes ==
    {[tag |-> "GPRMC", t |-> <<4, 15, 20>>, flag |-> "A", d |-> d, nf |-> 13]
        : d \in ValidDates \cup OddDates}
    \cup {[tag |-> "GPRMC", t |-> <<h, 15, 20>>, flag |-> "A", d |-> <<20, 4, 25>>,
           nf |-> 13] : h \in Hours}
    \cup {[tag |-> "GPRMC", t |-> t, flag |-> "A", d |-> <<1, 1, 25>>, nf |-> 13]
        : t \in {<<0, 0, 0>>, <<3, 59, 59>>, <<24, 60, 60>>, <<99, 99, 99>>}}
    \cup {[tag |-> "GPRMC", t |-> <<3, 15, 20>>, flag |-> "A", d |-> <<20, 4, 25>>, nf |-> n]
        : n \in {3} \cup (9..MaxFields)}
    \cup {[tag |-> tg, t |-> <<3, 15, 20>>, flag |-> f, d |-> <<20, 4, 25>>, nf |-> 13]
        : tg \in {"GPRMC", "GPGGA"}, f \in {"A", "V"}}

\* What a read beyond the month table may return.
JunkValues == {7, 77}
\* What a store beyond the parts array may do: land in memory nothing else
\* reads, or stop the controller.
Overruns == {"unnoticed", "halt"}

(***************************************************************************)
(* The controller.                                                         *)
(***************************************************************************)
\* The values the configuration globals take: lines 118-123 and 186-207.
Configs == {daylightSavingsTimeOn, daylightSavingsTimeOff} \X {0} \X {0, 1} \X {0, 1}

\* The line of every sentence, and parseGPSData on every line under every
\* configuration, worked out once and kept as tables.
Lines == [fix \in Fixes |-> Sentence(fix)] @@ <<>>

Parsed ==
    [fix \in Fixes, cfg \in Configs, junk \in {0} \cup JunkValues |->
        parseGPSData(Lines[fix], cfg[1], cfg[2], cfg[3], cfg[4], junk)] @@ <<>>

\* No function is being checked on its own.
NoCall == [fn |-> "none", args |-> <<>>]

\* The switch pins are not followed from step to step: each read of a pin
\* may find either level.
NotFollowed == <<>>

Init ==
    /\ call = NoCall
    /\ ret = 0
    /\ switches = NotFollowed
    /\ pc = "setup"
    /\ timeZoneOffsetHours = -4
    /\ timeZoneOffsetMinutes = 0
    /\ calendarConfiguration = 0
    /\ julianDateConfiguration = 0
    /\ dateStr = <<"2", "0", "2", "5", "0", "1", "0", "5">>
    /\ julianDays = <<"0", "0", "0", "0", "5">>
    /\ data = <<>>
    /\ gps = NoFix
    /\ rows = NoRows
    /\ partsTop = -1
    /\ wire = <<>>
    /\ csPin = LOW

\* setup(): the pins are made outputs and the chips are initialised.
Setup ==
    /\ pc = "setup"
    /\ pc' = "serial"
    /\ wire' = initializeMax7219
    /\ csPin' = CSAfter(csPin, wire')
    /\ UNCHANGED <<timeZoneOffsetHours, timeZoneOffsetMinutes, calendarConfiguration,
                   julianDateConfiguration, dateStr, julianDays, data, gps, rows,
                   partsTop, call, ret, switches>>

\* loop(), lines 177-182, with no line waiting.
LoopIdle ==
    /\ pc = "serial"
    /\ pc' = "switches"
    /\ data' = <<>>
    /\ gps' = NoFix
    /\ rows' = NoRows
    /\ partsTop' = -1
    /\ wire' = <<>>
    /\ UNCHANGED <<timeZoneOffsetHours, timeZoneOffsetMinutes, calendarConfiguration,
                   julianDateConfiguration, dateStr, julianDays, csPin, call, ret, switches>>

Config == <<timeZoneOffsetHours, timeZoneOffsetMinutes, calendarConfiguration,
            julianDateConfiguration>>

\* The store beyond the parts array stops the controller.
Halt(fix, r) ==
    /\ gps' = fix
    /\ data' = Lines[fix]
    /\ partsTop' = r.partsTop
    /\ pc' = "halted"
    /\ rows' = NoRows
    /\ wire' = <<>>
    /\ UNCHANGED <<dateStr, julianDays, csPin>>

\* The line is handled to the end.
Serial(fix, r) ==
    /\ gps' = fix
    /\ data' = Lines[fix]
    /\ partsTop' = r.partsTop
    /\ pc' = "switches"
    /\ dateStr' = IF r.shown THEN r.dateStr ELSE dateStr
    /\ julianDays' = IF r.shown THEN r.disp.julianDays ELSE julianDays
    /\ rows' = r.disp.rows
    /\ wire' = r.disp.wire
    /\ csPin' = CSAfter(csPin, wire')

\* loop(), lines 177-182, with the sentence of fix waiting.
LoopSerial ==
    /\ pc = "serial"
    /\ \E fix \in Fixes :
          \E junk \in (IF Parsed[fix, Config, 0].counted \cup Parsed[fix, Config, 0].disp.months
                          \subseteq 1..12 THEN {0} ELSE JunkValues),
             overrun \in (IF Parsed[fix, Config, 0].partsTop < PartsSize
                          THEN {"unnoticed"} ELSE Overruns) :
                IF overrun = "halt"
                THEN Halt(fix, Parsed[fix, Config, junk])
                ELSE Serial(fix, Parsed[fix, Config, junk])
    /\ UNCHANGED <<timeZoneOffsetHours, timeZoneOffsetMinutes, calendarConfiguration,
                   julianDateConfiguration, call, ret, switches>>

\* loop(), lines 184-207: the three switches are read.
LoopSwitches ==
    /\ pc = "switches"
    /\ pc' = "serial"
    /\ \E dst \in {LOW, HIGH}, cc \in {LOW, HIGH}, jd \in {LOW, HIGH} :
          /\ timeZoneOffsetHours' =
                IF dst = HIGH THEN daylightSavingsTimeOn ELSE daylightSavingsTimeOff
          /\ calendarConfiguration' = IF cc = HIGH THEN 1 ELSE 0
          /\ julianDateConfiguration' = IF jd = HIGH THEN 1 ELSE 0
    /\ data' = <<>>
    /\ gps' = NoFix
    /\ rows' = NoRows
    /\ partsTop' = -1
    /\ wire' = <<>>
    /\ UNCHANGED <<timeZoneOffsetMinutes, dateStr, julianDays, csPin, call, ret, switches>>

Next == Setup \/ LoopIdle \/ LoopSerial \/ LoopSwitches

Spec == Init /\ [][Next]_vars

(***************************************************************************)
(* The one-day-back step of displayDateAndTime on its own: dateStr holds   *)
(* any calendar date of 2000..2099 as parseGPSData stores it, in either    *)
(* order, and the step puts the date one day back into rows.date.          *)
(***************************************************************************)
InitBack ==
    /\ call = NoCall
    /\ ret = 0
    /\ switches = NotFollowed
    /\ pc = "date"
    /\ timeZoneOffsetHours \in {daylightSavingsTimeOn, daylightSavingsTimeOff}
    /\ timeZoneOffsetMinutes = 0
    /\ calendarConfiguration \in {0, 1}
    /\ julianDateConfiguration = 0
    /\ \E yy \in 0..99, mo \in 1..12, dd \in 1..31 :
          /\ dd <= Gregorian(mo, 2000 + yy)
          /\ gps = [tag |-> "GPRMC", t |-> <<0, 0, 0>>, flag |-> "A",
                    d |-> <<dd, mo, yy>>, nf |-> 13]
          /\ dateStr = MakeDateStr(D2(dd) \o D2(mo) \o D2(yy), calendarConfiguration)
    /\ julianDays = <<"0", "0", "0", "0", "5">>
    /\ data = <<>>
    /\ rows = NoRows
    /\ partsTop = -1
    /\ wire = <<>>
    /\ csPin = HIGH

DateBack ==
    /\ pc = "date"
    /\ pc' = "back"
    /\ \E junk \in JunkValues :
          rows' = [NoRows EXCEPT !.date = BackOneDay(dateStr, 1, calendarConfiguration, junk).date]
    /\ UNCHANGED <<timeZoneOffsetHours, timeZoneOffsetMinutes, calendarConfiguration,
                   julianDateConfiguration, dateStr, julianDays, data, gps, partsTop,
                   wire, csPin, call, ret, switches>>

NextBack == DateBack

SpecBack == InitBack /\ [][NextBack]_vars

(***************************************************************************)
(* The functions without side effects called on their own: the function    *)
(* and its arguments are in call, the step of the function puts what it    *)
(* returns into ret.                                                       *)
(***************************************************************************)
\* Every printable character, the NUL charAt returns beyond the end, a high byte.
Characters == {Ascii[k] : k \in 1..95} \cup {NUL, HighByte}

\* Years before the year 1, as the int arithmetic sees them.
EarlyYears == {-400, -100, -4, -1, 0}

CharCalls == {[fn |-> "charToSevenSegment", args |-> <<c>>] : c \in Characters}

MonthCalls ==
    {[fn |-> f, args |-> <<m, y>>] :
        f \in {"daysInMonth", "daysInMonth_v2_1", "daysInMonth_v2_0"},
        m \in 1..12, y \in (FirstYear..LastYear) \cup EarlyYears}

\* The dates of 2000 .. 2099 as parseGPSData writes them in the order cal.
JulianCalls(cal) ==
    {[fn |-> "getNumberOfJulianDays",
      args |-> <<MakeDateStr(D2(d[1]) \o D2(d[2]) \o D2(d[3]), cal)>>] :
        d \in {x \in (1..31) \X (1..12) \X (0..99) : x[1] <= Gregorian(x[2], 2000 + x[3])}}

\* Date, time and day-of-year strings handed to a send loop.
LoopStrings ==
    {<<StringOf(20250420), <<"0", "0", "0", "1", "1", "5", "2", "0">>, <<"0", "0", "0", "2", "5", "1", "1", "0">>>>,
     <<<<"2", "0">>, <<"0", "0", "0", "3", "1", "5", "2", "0">>, <<"0", "0", "0", "0", "0">>>>}
LoopCalls ==
    {[fn |-> f, args |-> a] :
        f \in {"sendLoop_v1", "sendLoop_v2_0", "sendLoop_v2_1", "sendLoop"},
        a \in LoopStrings}

\* v2.1: every UTC hour on some dates, among them the first day of a year, of
\* a month and of March in a leap year; one flagged invalid.
Dates_v2_1 == {<<20, 4, 25>>, <<1, 1, 25>>, <<1, 3, 24>>, <<1, 1, 0>>, <<31, 12, 24>>,
               <<1, 5, 25>>, <<9, 4, 25>>}
Fixes_v2_1 ==
    {[tag |-> "GPRMC", t |-> <<h, 15, 20>>, flag |-> "A", d |-> d, nf |-> 13]
        : h \in 0..23, d \in Dates_v2_1}
    \cup {[tag |-> "GPRMC", t |-> <<4, 15, 20>>, flag |-> "V", d |-> <<20, 4, 25>>, nf |-> 13]}
ParseCalls_v2_1 == {[fn |-> "parseGPSData_v2_1", args |-> <<fix>>] : fix \in Fixes_v2_1}

SetupCalls ==
    {[fn |-> f, args |-> <<>>] : f \in {"setup_v1", "setup_v2_0", "setup_v2_1", "setup"}}

InitPure ==
    /\ pc = "call"
    /\ ret = 0
    /\ switches = NotFollowed
    /\ \/ call \in CharCalls /\ calendarConfiguration = 0
       \/ call \in MonthCalls /\ calendarConfiguration = 0
       \/ call \in LoopCalls /\ calendarConfiguration = 0
       \/ call \in SetupCalls /\ calendarConfiguration = 0
       \/ call \in ParseCalls_v2_1 /\ calendarConfiguration = 0
       \/ calendarConfiguration \in {0, 1} /\ call \in JulianCalls(calendarConfiguration)
    /\ timeZoneOffsetHours \in (IF call.fn = "parseGPSData_v2_1"
                                THEN {daylightSavingsTimeOn, daylightSavingsTimeOff}
                                ELSE {daylightSavingsTimeOn})
    /\ timeZoneOffsetMinutes = 0
    /\ julianDateConfiguration = 0
    /\ dateStr = <<"2", "0", "2", "5", "0", "1", "0", "5">>
    /\ julianDays = <<"0", "0", "0", "0", "5">>
    /\ data = <<>>
    /\ gps = NoFix
    /\ rows = NoRows
    /\ partsTop = -1
    /\ wire = <<>>
    /\ csPin = HIGH

CallCharToSevenSegment ==
    /\ pc = "call" /\ call.fn = "charToSevenSegment"
    /\ pc' = "return"
    /\ ret' = charToSevenSegment(call.args[1])
    /\ UNCHANGED <<timeZoneOffsetHours, timeZoneOffsetMinutes, calendarConfiguration,
                   julianDateConfiguration, dateStr, julianDays, data, gps, rows,
                   partsTop, wire, csPin, call, switches>>

CallDaysInMonth ==
    /\ pc = "call" /\ call.fn = "daysInMonth"
    /\ pc' = "return"
    /\ \E junk \in JunkValues : ret' = daysInMonth(call.args[1], call.args[2], junk)
    /\ UNCHANGED <<timeZoneOffsetHours, timeZoneOffsetMinutes, calendarConfiguration,
                   julianDateConfiguration, dateStr, julianDays, data, gps, rows,
                   partsTop, wire, csPin, call, switches>>

CallDaysInMonth_v2_1 ==
    /\ pc = "call" /\ call.fn = "daysInMonth_v2_1"
    /\ pc' = "return"
    /\ \E junk \in JunkValues : ret' = daysInMonth_v2_1(call.args[1], call.args[2], junk)
    /\ UNCHANGED <<timeZoneOffsetHours, timeZoneOffsetMinutes, calendarConfiguration,
                   julianDateConfiguration, dateStr, julianDays, data, gps, rows,
                   partsTop, wire, csPin, call, switches>>

CallDaysInMonth_v2_0 ==
    /\ pc = "call" /\ call.fn = "daysInMonth_v2_0"
    /\ pc' = "return"
    /\ \E junk \in JunkValues : ret' = daysInMonth_v2_0(call.args[1], call.args[2], junk)
    /\ UNCHANGED <<timeZoneOffsetHours, timeZoneOffsetMinutes, calendarConfiguration,
                   julianDateConfiguration, dateStr, julianDays, data, gps, rows,
                   partsTop, wire, csPin, call, switches>>

CallGetNumberOfJulianDays ==
    /\ pc = "call" /\ call.fn = "getNumberOfJulianDays"
    /\ pc' = "return"
    /\ \E junk \in JunkValues :
          ret' = getNumberOfJulianDays(call.args[1], calendarConfiguration, junk)
    /\ UNCHANGED <<timeZoneOffsetHours, timeZoneOffsetMinutes, calendarConfiguration,
                   julianDateConfiguration, dateStr, julianDays, data, gps, rows,
                   partsTop, wire, csPin, call, switches>>

\* The send loops: args are the date, the time and the day-of-year string.
CallSendLoop_v1 ==
    /\ pc = "call" /\ call.fn = "sendLoop_v1"
    /\ pc' = "return"
    /\ \E junk \in JunkValues : ret' = sendLoop_v1(call.args[1], call.args[2], junk)
    /\ UNCHANGED <<timeZoneOffsetHours, timeZoneOffsetMinutes, calendarConfiguration,
                   julianDateConfiguration, dateStr, julianDays, data, gps, rows,
                   partsTop, wire, csPin, call, switches>>

CallSendLoop_v2_0 ==
    /\ pc = "call" /\ call.fn = "sendLoop_v2_0"
    /\ pc' = "return"
    /\ \E junk \in JunkValues : ret' = sendLoop_v2_0(call.args[2], call.args[1], junk)
    /\ UNCHANGED <<timeZoneOffsetHours, timeZoneOffsetMinutes, calendarConfiguration,
                   julianDateConfiguration, dateStr, julianDays, data, gps, rows,
                   partsTop, wire, csPin, call, switches>>

CallSendLoop_v2_1 ==
    /\ pc = "call" /\ call.fn = "sendLoop_v2_1"
    /\ pc' = "return"
    /\ \E junk \in JunkValues :
          ret' = sendLoop_v2_1(call.args[2], call.args[1], call.args[3], junk)
    /\ UNCHANGED <<timeZoneOffsetHours, timeZoneOffsetMinutes, calendarConfiguration,
                   julianDateConfiguration, dateStr, julianDays, data, gps, rows,
                   partsTop, wire, csPin, call, switches>>

CallSendLoop ==
    /\ pc = "call" /\ call.fn = "sendLoop"
    /\ pc' = "return"
    /\ ret' = sendLoop(call.args[2], call.args[1], call.args[3])
    /\ UNCHANGED <<timeZoneOffsetHours, timeZoneOffsetMinutes, calendarConfiguration,
                   julianDateConfiguration, dateStr, julianDays, data, gps, rows,
                   partsTop, wire, csPin, call, switches>>

\* setup() run on its own: what it did, in order.
CallSetup_v1 ==
    /\ pc = "call" /\ call.fn = "setup_v1"
    /\ pc' = "return"
    /\ ret' = setup_v1
    /\ UNCHANGED <<timeZoneOffsetHours, timeZoneOffsetMinutes, calendarConfiguration,
                   julianDateConfiguration, dateStr, julianDays, data, gps, rows,
                   partsTop, wire, csPin, call, switches>>

CallSetup_v2_0 ==
    /\ pc = "call" /\ call.fn = "setup_v2_0"
    /\ pc' = "return"
    /\ ret' = setup_v2_0
    /\ UNCHANGED <<timeZoneOffsetHours, timeZoneOffsetMinutes, calendarConfiguration,
                   julianDateConfiguration, dateStr, julianDays, data, gps, rows,
                   partsTop, wire, csPin, call, switches>>

CallSetup_v2_1 ==
    /\ pc = "call" /\ call.fn = "setup_v2_1"
    /\ pc' = "return"
    /\ ret' = setup_v2_1
    /\ UNCHANGED <<timeZoneOffsetHours, timeZoneOffsetMinutes, calendarConfiguration,
                   julianDateConfiguration, dateStr, julianDays, data, gps, rows,
                   partsTop, wire, csPin, call, switches>>

CallSetup ==
    /\ pc = "call" /\ call.fn = "setup"
    /\ pc' = "return"
    /\ ret' = setup
    /\ UNCHANGED <<timeZoneOffsetHours, timeZoneOffsetMinutes, calendarConfiguration,
                   julianDateConfiguration, dateStr, julianDays, data, gps, rows,
                   partsTop, wire, csPin, call, switches>>

\* v2.1: parseGPSData on one sentence under the offset the switch chose.
CallParseGPSData_v2_1 ==
    /\ pc = "call" /\ call.fn = "parseGPSData_v2_1"
    /\ pc' = "return"
    /\ \E junk \in JunkValues :
          ret' = parseGPSData_v2_1(Sentence(call.args[1]), timeZoneOffsetHours,
                                   timeZoneOffsetMinutes, junk)
    /\ UNCHANGED <<timeZoneOffsetHours, timeZoneOffsetMinutes, calendarConfiguration,
                   julianDateConfiguration, dateStr, julianDays, data, gps, rows,
                   partsTop, wire, csPin, call, switches>>

NextPure ==
    \/ CallCharToSevenSegment
    \/ CallDaysInMonth
    \/ CallDaysInMonth_v2_1
    \/ CallDaysInMonth_v2_0
    \/ CallGetNumberOfJulianDays
    \/ CallSendLoop_v1
    \/ CallSendLoop_v2_0
    \/ CallSendLoop_v2_1
    \/ CallSendLoop
    \/ CallSetup_v1
    \/ CallSetup_v2_0
    \/ CallSetup_v2_1
    \/ CallSetup
    \/ CallParseGPSData_v2_1

SpecPure == InitPure /\ [][NextPure]_vars

(***************************************************************************)
(* loop() step by step, with the switches followed.  The switch pins hold  *)
(* their levels from power-on and may be moved at any moment.  One pass is *)
(* the read of a line (lines 177-179), the split and the time and date     *)
(* strings of parseGPSData (lines 218-264), the day count (line 266), the  *)
(* strings of displayDateAndTime (lines 361-447), its eight sendRegister   *)
(* calls one at a time (lines 451-461), and the read of the three switches *)
(* (lines 184-207).  While parseGPSData runs, call holds its local hours,  *)
(* minutes and seconds; while displayDateAndTime runs, call holds the      *)
(* arguments it was given, and rows its local strings.                     *)
(***************************************************************************)
Levels == {LOW, HIGH} \X {LOW, HIGH} \X {LOW, HIGH}

\* The configuration lines 184-207 store for the levels of the three pins.
ConfigOf(levels) ==
    <<IF levels[1] = HIGH THEN daylightSavingsTimeOn ELSE daylightSavingsTimeOff,
      timeZoneOffsetMinutes,
      IF levels[2] = HIGH THEN 1 ELSE 0,
      IF levels[3] = HIGH THEN 1 ELSE 0>>

\* The sentences that arrive: two with a calendar date, one of fourteen
\* fields, one whose date digits are no date, one flagged V, one other tag.
CycleFixes ==
    {[tag |-> "GPRMC", t |-> <<4, 15, 20>>, flag |-> "A", d |-> <<1, 1, 25>>, nf |-> 13],
     [tag |-> "GPRMC", t |-> <<5, 15, 20>>, flag |-> "A", d |-> <<20, 4, 25>>, nf |-> 13],
     [tag |-> "GPRMC", t |-> <<3, 15, 20>>, flag |-> "A", d |-> <<20, 4, 25>>, nf |-> 14],
     [tag |-> "GPRMC", t |-> <<4, 15, 20>>, flag |-> "A", d |-> <<99, 99, 99>>, nf |-> 13],
     [tag |-> "GPRMC", t |-> <<3, 15, 20>>, flag |-> "V", d |-> <<20, 4, 25>>, nf |-> 13],
     [tag |-> "GPGGA", t |-> <<3, 15, 20>>, flag |-> "A", d |-> <<20, 4, 25>>, nf |-> 13]}

InitCycle ==
    /\ call = NoCall
    /\ ret = 0
    /\ switches \in Levels
    /\ pc = "setup"
    /\ timeZoneOffsetHours = -4
    /\ timeZoneOffsetMinutes = 0
    /\ calendarConfiguration = 0
    /\ julianDateConfiguration = 0
    /\ dateStr = <<"2", "0", "2", "5", "0", "1", "0", "5">>
    /\ julianDays = <<"0", "0", "0", "0", "5">>
    /\ data = <<>>
    /\ gps = NoFix
    /\ rows = NoRows
    /\ partsTop = -1
    /\ wire = <<>>
    /\ csPin = LOW

\* A switch is moved.
MoveSwitch ==
    /\ pc # "halted"
    /\ \E k \in 1..3 :
          switches' = [switches EXCEPT ![k] = IF @ = HIGH THEN LOW ELSE HIGH]
    /\ UNCHANGED <<pc, timeZoneOffsetHours, timeZoneOffsetMinutes, calendarConfiguration,
                   julianDateConfiguration, dateStr, julianDays, data, gps, rows,
                   partsTop, wire, csPin, call, ret>>

\* Lines 177-179: a line is read; parseGPSData is called if it starts with
\* the tag.
ReadLine ==
    /\ pc = "serial"
    /\ \E fix \in CycleFixes :
          /\ gps' = fix
          /\ data' = Lines[fix]
          /\ pc' = IF startsWith(Lines[fix], Tag) THEN "parse" ELSE "switches"
    /\ rows' = NoRows
    /\ partsTop' = -1
    /\ wire' = <<>>
    /\ UNCHANGED <<timeZoneOffsetHours, timeZoneOffsetMinutes, calendarConfiguration,
                   julianDateConfiguration, dateStr, julianDays, csPin, call, ret,
                   switches>>

\* Lines 232-264 for the fields parts: dateStr is assigned, the local time
\* is worked out and kept.
TimeAndDate(parts, t) ==
    /\ dateStr' = (IF t.underflow
                   THEN adjustDate(MakeDateStr(PartAt(parts, 9), calendarConfiguration),
                                   t.localHours, t.utcHours, 0)
                   ELSE MakeDateStr(PartAt(parts, 9), calendarConfiguration))
    /\ call' = [fn |-> "parseGPSData", args |-> <<t.localHours, t.minutes, t.seconds>>]
    /\ pc' = "count"

\* Lines 218-264: the line is split; a store beyond the parts array may stop
\* the controller; a line not flagged A is left alone.
SplitLine(parts, overrun) ==
    /\ partsTop' = Len(parts) - 1
    /\ IF overrun = "halt"
       THEN pc' = "halted" /\ UNCHANGED <<dateStr, call>>
       ELSE IF IsValidFix(data, parts)
       THEN TimeAndDate(parts, LocalTime(PartAt(parts, 1), timeZoneOffsetHours,
                                         timeZoneOffsetMinutes))
       ELSE pc' = "switches" /\ UNCHANGED <<dateStr, call>>

ParseLine ==
    /\ pc = "parse"
    /\ \E overrun \in (IF Parsed[gps, Config, 0].partsTop < PartsSize
                       THEN {"unnoticed"} ELSE Overruns) :
          SplitLine(SplitFrom(data, 0, 0, <<>>), overrun)
    /\ UNCHANGED <<timeZoneOffsetHours, timeZoneOffsetMinutes, calendarConfiguration,
                   julianDateConfiguration, julianDays, data, gps, rows, wire, csPin,
                   ret, switches>>

\* Lines 266-269: the days are counted from dateStr and displayDateAndTime is
\* called.
CountDays ==
    /\ pc = "count"
    /\ pc' = "display"
    /\ \E junk \in (IF JulianMonths(dateStr, calendarConfiguration) \subseteq 1..12
                    THEN {0} ELSE JunkValues) :
          call' = [fn |-> "displayDateAndTime",
                   args |-> <<dateStr, call.args[1], call.args[2], call.args[3],
                              getNumberOfJulianDays(dateStr, calendarConfiguration, junk)>>]
    /\ UNCHANGED <<timeZoneOffsetHours, timeZoneOffsetMinutes, calendarConfiguration,
                   julianDateConfiguration, dateStr, julianDays, data, gps, rows,
                   partsTop, wire, csPin, ret, switches>>

\* displayDateAndTime on the arguments in call under the configuration as it
\* is now.
Formatted(junk) ==
    displayDateAndTime(call.args[1], call.args[2], call.args[3], call.args[4],
                       call.args[5], timeZoneOffsetHours, calendarConfiguration,
                       julianDateConfiguration, junk)

\* Lines 361-447: the date, julianDays and the time string are built.
FormatRows ==
    /\ pc = "display"
    /\ pc' = "send"
    /\ \E junk \in (IF Formatted(0).months \subseteq 1..12 THEN {0} ELSE JunkValues) :
          /\ julianDays' = Formatted(junk).julianDays
          /\ rows' = [time |-> Formatted(junk).rows.time,
                      date |-> Formatted(junk).rows.date,
                      julian |-> Formatted(junk).julianDays]
    /\ UNCHANGED <<timeZoneOffsetHours, timeZoneOffsetMinutes, calendarConfiguration,
                   julianDateConfiguration, dateStr, data, gps, partsTop, wire, csPin,
                   call, ret, switches>>

\* Lines 451-461, one pass of the loop: character Len(wire) of the time and
\* date strings and of julianDays is sent.
SendDigit ==
    /\ pc = "send"
    /\ wire' = Append(wire, Head(FrameFrom(Len(wire), rows.time, rows.date, julianDays)))
    /\ csPin' = CSAfter(csPin, <<wire'[Len(wire')]>>)
    /\ pc' = IF Len(wire') = 8 THEN "switches" ELSE "send"
    /\ call' = IF Len(wire') = 8 THEN NoCall ELSE call
    /\ UNCHANGED <<timeZoneOffsetHours, timeZoneOffsetMinutes, calendarConfiguration,
                   julianDateConfiguration, dateStr, julianDays, data, gps, rows,
                   partsTop, ret, switches>>

\* The switches read also while displayDateAndTime is at work, as from an
\* interrupt.
ReadSwitches_midway ==
    /\ pc \in {"switches", "display"}
    /\ pc' = IF pc = "switches" THEN "serial" ELSE pc
    /\ timeZoneOffsetHours' = ConfigOf(switches)[1]
    /\ calendarConfiguration' = ConfigOf(switches)[3]
    /\ julianDateConfiguration' = ConfigOf(switches)[4]
    /\ data' = IF pc = "switches" THEN <<>> ELSE data
    /\ gps' = IF pc = "switches" THEN NoFix ELSE gps
    /\ rows' = IF pc = "switches" THEN NoRows ELSE rows
    /\ partsTop' = IF pc = "switches" THEN -1 ELSE partsTop
    /\ wire' = IF pc = "switches" THEN <<>> ELSE wire
    /\ UNCHANGED <<timeZoneOffsetMinutes, dateStr, julianDays, csPin, call, ret,
                   switches>>

\* Lines 184-207: the three switches are read.
ReadSwitches ==
    /\ pc = "switches"
    /\ pc' = "serial"
    /\ timeZoneOffsetHours' = ConfigOf(switches)[1]
    /\ calendarConfiguration' = ConfigOf(switches)[3]
    /\ julianDateConfiguration' = ConfigOf(switches)[4]
    /\ data' = <<>>
    /\ gps' = NoFix
    /\ rows' = NoRows
    /\ partsTop' = -1
    /\ wire' = <<>>
    /\ UNCHANGED <<timeZoneOffsetMinutes, dateStr, julianDays, csPin, call, ret,
                   switches>>

NextCycle ==
    \/ Setup
    \/ MoveSwitch
    \/ LoopIdle
    \/ ReadLine
    \/ ParseLine
    \/ CountDays
    \/ FormatRows
    \/ SendDigit
    \/ ReadSwitches

SpecCycle == InitCycle /\ [][NextCycle]_vars

(***************************************************************************)
(* The calendar, the segment patterns and the rows as the specification    *)
(* states them, and what the chips were sent.                              *)
(***************************************************************************)
CumDays == <<0, 31, 59, 90, 120, 151, 181, 212, 243, 273, 304, 334>>
DayOfYear(y, m, d) ==
    CumDays[m] + d + (IF m > 2 /\ Gregorian(2, y) = 29 THEN 1 ELSE 0)
IsDate(y, m, d) == m \in 1..12 /\ d \in 1..Gregorian(m, y)
\* Days since 31 December of the year 0.
Ordinal(y, m, d) ==
    365 * (y - 1) + ((y - 1) \div 4) - ((y - 1) \div 100) + ((y - 1) \div 400)
    + DayOfYear(y, m, d)

Patterns == <<126, 48, 109, 121, 51, 91, 95, 112, 127, 123>>
PatternOf(c) == IF IsDigit(c) THEN Patterns[DigitVal(c) + 1] ELSE 0
DigitOf(b) == IF \E k \in 1..10 : Patterns[k] = b
              THEN (CHOOSE k \in 1..10 : Patterns[k] = b) - 1 ELSE -1

\* The digits sent in byte col of the eight writes: 2 day-of-year, 4 time, 6 date.
SentRow(col) == [i \in 1..8 |-> DigitOf(wire[i][col])]
AllDigits(r) == \A i \in 1..8 : r[i] >= 0
N2(r, a) == 10 * r[a] + r[a + 1]
N4(r, a) == 1000 * r[a] + 100 * r[a + 1] + 10 * r[a + 2] + r[a + 3]
DateOf(r) ==
    IF calendarConfiguration = 1
    THEN [year |-> N4(r, 1), month |-> N2(r, 5), day |-> N2(r, 7)]
    ELSE [year |-> N4(r, 5), month |-> N2(r, 1), day |-> N2(r, 3)]
SentDate == DateOf(SentRow(6))

\* The number in the last three characters of the Julian row.
JulianNumber ==
    LET j == rows.julian
        n == Len(j)
    IN  IF n >= 3 /\ IsDigit(j[n - 2]) /\ IsDigit(j[n - 1]) /\ IsDigit(j[n])
        THEN 100 * DigitVal(j[n - 2]) + 10 * DigitVal(j[n - 1]) + DigitVal(j[n])
        ELSE -1

\* The serial part of loop() has just handled an accepted sentence.
Shown == pc = "switches" /\ gps.tag = "GPRMC" /\ gps.flag = "A" /\ gps.nf >= 3
\* The sentence has a date field and no more fields than parts holds.
WholeSentence == gps.nf >= 10 /\ gps.nf <= PartsSize
UtcYear == 2000 + gps.d[3]
UtcDateOk == IsDate(UtcYear, gps.d[2], gps.d[1])
UtcTimeOk == gps.t[1] <= 23 /\ gps.t[2] <= 59 /\ gps.t[3] <= 59
Underflow == gps.t[1] + timeZoneOffsetHours < 0

(***************************************************************************)
(* C1.  For an accepted sentence with a valid UTC date and a UTC hour in   *)
(* 0..23, the date row sent to the date chip is a calendar date: the day   *)
(* before the UTC date when hour + offset < 0, the UTC date otherwise.     *)
(* The step back is made once.                                             *)
(***************************************************************************)
C1_DateRowIsLocalDate ==
    (Shown /\ WholeSentence /\ UtcDateOk /\ gps.t[1] <= 23) =>
        /\ Len(wire) = 8
        /\ AllDigits(SentRow(6))
        /\ IsDate(SentDate.year, SentDate.month, SentDate.day)
        /\ Ordinal(SentDate.year, SentDate.month, SentDate.day)
             = Ordinal(UtcYear, gps.d[2], gps.d[1]) - (IF Underflow THEN 1 ELSE 0)

\* 1 March 2024, 04:15:20 UTC at offset -5: 29 February 2024 is sent.
C1_Witness ==
    /\ Shown /\ WholeSentence /\ Underflow
    /\ gps.d = <<1, 3, 24>> /\ calendarConfiguration = 1
    /\ SentRow(6) = <<2, 0, 2, 4, 0, 2, 2, 9>>

(***************************************************************************)
(* C2.  For an accepted sentence with a valid UTC date and hour, the       *)
(* number in the Julian row is the day of the year of the date in the      *)
(* date row, and lies in 1..366.                                           *)
(***************************************************************************)
C2_JulianIsDayOfYearOfDateRow ==
    (Shown /\ WholeSentence /\ UtcDateOk /\ gps.t[1] <= 23) =>
        /\ JulianNumber \in 1..366
        /\ IsDate(SentDate.year, SentDate.month, SentDate.day)
        /\ JulianNumber = DayOfYear(SentDate.year, SentDate.month, SentDate.day)

\* 1 January 2025, 04:15:20 UTC at offset -5: 31 December 2024 with day 000.
C2_Witness ==
    /\ Shown /\ WholeSentence /\ Underflow
    /\ gps.d = <<1, 1, 25>> /\ calendarConfiguration = 0
    /\ rows.date = <<"1", "2", "3", "1", "2", "0", "2", "4">>
    /\ JulianNumber = 0

(***************************************************************************)
(* C3.  For an accepted sentence with six-digit time and date fields the   *)
(* time, date and Julian strings built by displayDateAndTime have eight    *)
(* characters each.                                                        *)
(***************************************************************************)
C3_RowsHaveEightCharacters ==
    (Shown /\ WholeSentence) =>
        Len(rows.time) = 8 /\ Len(rows.date) = 8 /\ Len(rows.julian) = 8

LocalTimeRow ==
    <<"0", "0">> \o D2((gps.t[1] + timeZoneOffsetHours) % 24) \o D2(gps.t[2]) \o D2(gps.t[3])

\* Day-of-year only: two zeros and three digits.
C3_Witness ==
    /\ Shown /\ WholeSentence /\ julianDateConfiguration = 0
    /\ Len(rows.time) = 8 /\ Len(rows.date) = 8 /\ Len(rows.julian) = 5

(***************************************************************************)
(* C4.  For an accepted sentence with a UTC time in 00:00:00 .. 23:59:59   *)
(* the time row is "00", the local hour (h + offset) mod 24, the minute    *)
(* and the second, two digits each, and that is what the time chip is sent.*)
(***************************************************************************)
C4_TimeRow ==
    (Shown /\ UtcTimeOk) =>
        /\ rows.time = LocalTimeRow
        /\ Len(wire) = 8
        /\ \A i \in 1..8 : wire[i][4] = PatternOf(LocalTimeRow[i])

\* 03:59:59 UTC at offset -5 is shown as 22:59:59.
C4_Witness ==
    /\ Shown /\ gps.t = <<3, 59, 59>> /\ timeZoneOffsetHours = -5
    /\ rows.time = <<"0", "0", "2", "2", "5", "9", "5", "9">>
    /\ SentRow(4) = <<0, 0, 2, 2, 5, 9, 5, 9>>

PrevDay(y, m, d) ==
    IF d > 1 THEN [year |-> y, month |-> m, day |-> d - 1]
    ELSE IF m > 1 THEN [year |-> y, month |-> m - 1, day |-> Gregorian(m - 1, y)]
    ELSE [year |-> y - 1, month |-> 12, day |-> 31]

RowDigits(str) ==
    [i \in 1..8 |-> IF i <= Len(str) /\ IsDigit(str[i]) THEN DigitVal(str[i]) ELSE -1]

(***************************************************************************)
(* C5.  The one-day-back step of displayDateAndTime turns every calendar   *)
(* date of 2000..2099, in either order, into the calendar date before it:  *)
(* day - 1 if day > 1, else the last day of the month before (29 February  *)
(* in leap years), and 31 December of the year before from 1 January; the  *)
(* date string it builds is eight digits.                                  *)
(***************************************************************************)
C5_BackStepIsDecrementOneDay ==
    pc = "back" =>
        /\ Len(rows.date) = 8
        /\ AllDigits(RowDigits(rows.date))
        /\ DateOf(RowDigits(rows.date)) = PrevDay(UtcYear, gps.d[2], gps.d[1])
        /\ IsDate(DateOf(RowDigits(rows.date)).year, DateOf(RowDigits(rows.date)).month,
                  DateOf(RowDigits(rows.date)).day)

\* 1 January 2000, month first, is stepped back to 31 December 1999.
C5_Witness ==
    /\ pc = "back" /\ gps.d = <<1, 1, 0>> /\ calendarConfiguration = 0
    /\ rows.date = <<"1", "2", "3", "1", "1", "9", "9", "9">>

Declined(fix) == fix.tag # "GPRMC" \/ fix.flag # "A" \/ fix.nf < 3

(***************************************************************************)
(* C6.  A line that does not start with $GPRMC, or whose third field is    *)
(* not "A", causes no sendRegister call and leaves dateStr and julianDays  *)
(* as they were.                                                           *)
(***************************************************************************)
C6_DeclinedLineChangesNothing ==
    [][(pc = "serial" /\ Declined(gps')) =>
          (wire' = <<>> /\ dateStr' = dateStr /\ julianDays' = julianDays)]_vars

\* A sentence flagged V has been read after 20 April 2025 was displayed.
C6_Witness ==
    /\ pc = "switches" /\ gps.tag = "GPRMC" /\ gps.flag = "V" /\ wire = <<>>
    /\ dateStr = <<"2", "0", "2", "5", "0", "4", "2", "0">>

(***************************************************************************)
(* C7.  A $GPRMC line flagged "A" with fewer than ten fields is skipped:   *)
(* no sendRegister call is made and dateStr is left as it was.             *)
(***************************************************************************)
C7_ShortLineIsSkipped ==
    [][(pc = "serial" /\ gps'.tag = "GPRMC" /\ gps'.flag = "A" /\ gps'.nf \in 3..9) =>
          (wire' = <<>> /\ dateStr' = dateStr)]_vars

\* $GPRMC,031520,A has been read: a frame was sent and dateStr is "20".
C7_Witness ==
    /\ pc = "switches" /\ gps.tag = "GPRMC" /\ gps.flag = "A" /\ gps.nf = 3
    /\ Len(wire) = 8 /\ dateStr = <<"2", "0">>

(***************************************************************************)
(* C8.  parseGPSData stores no field at an index beyond 12, and a line of  *)
(* more fields than the parts array holds is declined.                     *)
(***************************************************************************)
C8_PartsIndexInRange ==
    /\ partsTop < PartsSize
    /\ gps.nf > PartsSize => wire = <<>>

DataBits(w) == {k \in 1..Len(w) : w[k][1] = "DIN"}

\* A sentence of fourteen fields has been read: parts[13] was stored to.
C8_Witness ==
    /\ gps.nf = PartsSize + 1 /\ partsTop = PartsSize

ByteAt(w, from) ==
    128 * w[from][2] + 64 * w[from + 1][2] + 32 * w[from + 2][2] + 16 * w[from + 3][2]
    + 8 * w[from + 4][2] + 4 * w[from + 5][2] + 2 * w[from + 6][2] + w[from + 7][2]

Bracketed(w, bytes) ==
    /\ Len(w) = 50
    /\ w[1] = <<"CS", LOW>>
    /\ w[50] = <<"CS", HIGH>>
    /\ \A k \in 2..49 : w[k][1] = "DIN"
    /\ \A b \in 1..6 : ByteAt(w, 2 + 8 * (b - 1)) = bytes[b]

(***************************************************************************)
(* C10.  The pin events of every sendRegister call are: chip-select low,   *)
(* then the six bytes, eight bits each, most significant bit first, then   *)
(* chip-select high; no bit is shifted while chip-select is high, and      *)
(* chip-select is high between the calls once setup() has run.             *)
(***************************************************************************)
C10_ChipSelectBrackets ==
    /\ \A k \in 1..Len(wire) : Bracketed(SubSeq(Pins(wire), 50 * k - 49, 50 * k), wire[k])
    /\ Len(Pins(wire)) = 50 * Len(wire)
    /\ pc # "setup" => csPin = HIGH

\* The last write of a refresh has been shifted out.
C10_Witness ==
    /\ Shown /\ Len(wire) = 8 /\ csPin = HIGH
    /\ SubSeq(Pins(wire), 351, 359) =
          <<<<"CS", 0>>, <<"DIN", 0>>, <<"DIN", 0>>, <<"DIN", 0>>, <<"DIN", 0>>,
            <<"DIN", 0>>, <<"DIN", 0>>, <<"DIN", 0>>, <<"DIN", 1>>>>

(***************************************************************************)
(* C11.  With the chips a chain of 16-bit shift stages that latch on the   *)
(* rising chip-select edge, after every sendRegister call the farthest     *)
(* chip has latched the first pair of the call, the middle chip the second *)
(* and the nearest chip the third; in a refresh these are the patterns of  *)
(* the day-of-year, the time and the date row, each on its own chip.       *)
(***************************************************************************)
C11_EachChipLatchesItsRow ==
    /\ \A k \in 1..Len(wire) :
          Latched(wire[k]) = <<<<wire[k][1], wire[k][2]>>, <<wire[k][3], wire[k][4]>>,
                               <<wire[k][5], wire[k][6]>>>>
    /\ Shown =>
          \A i \in 0..7 :
              Latched(wire[i + 1]) = <<<<8 - i, PatternOf(charAt(rows.julian, i))>>,
                                      <<8 - i, PatternOf(charAt(rows.time, i))>>,
                                      <<8 - i, PatternOf(charAt(rows.date, i))>>>>

\* 1 March 2024, 04:15:20 UTC at offset -4, year first: the three chips have
\* latched, for position 1, a blank, the 0 of 00:15:20 and the 1 of 20240301.
C11_Witness ==
    /\ Shown /\ WholeSentence /\ gps.d = <<1, 3, 24>> /\ timeZoneOffsetHours = -4
    /\ calendarConfiguration = 1 /\ julianDateConfiguration = 0
    /\ Latched(wire[8]) = <<<<1, 0>>, <<1, 126>>, <<1, 48>>>>

\* What chip n (1 the farthest) latched in the calls, in order.
LatchedBy(calls, n) == [k \in 1..Len(calls) |-> Latched(calls[k])[n]]

\* Register addresses of the MAX7219: 11 scan limit, 9 decode mode, 12 shutdown,
\* 15 display test, 10 intensity, 1..8 the digits.
InitOrder(scan, intensity) ==
    <<<<11, scan>>, <<9, 0>>, <<12, 1>>, <<15, 0>>, <<10, intensity>>,
      <<1, 0>>, <<2, 0>>, <<3, 0>>, <<4, 0>>, <<5, 0>>, <<6, 0>>, <<7, 0>>, <<8, 0>>>>

\* setup() has just returned.
SetupDone == pc = "serial" /\ wire # <<>>

\* Some chip latched a pattern other than 0 for one of its digits.
NonZeroDigit(calls) ==
    \E k \in 1..Len(calls), n \in 1..3 :
        Latched(calls[k])[n][1] \in 1..8 /\ Latched(calls[k])[n][2] # 0

(***************************************************************************)
(* C12.  When initializeMax7219 is over every chip has latched, one        *)
(* combined write each and in this order, a scan limit, decode mode 0,     *)
(* shutdown 1, display test 0, an intensity and then pattern 0 for the     *)
(* digits 1..8; a pattern other than 0 is latched for a digit only in a    *)
(* step that handles a $GPRMC sentence flagged A.                          *)
(***************************************************************************)
C12_InitializeThenBlank ==
    /\ SetupDone =>
          \A n \in 1..3 : \E scan \in 0..7, intensity \in 0..15 :
              LatchedBy(wire, n) = InitOrder(scan, intensity)
    /\ NonZeroDigit(wire) => (gps.tag = "GPRMC" /\ gps.flag = "A")

\* setup() is over: thirteen writes, the last one blanks digit 8 of every chip.
C12_Witness ==
    /\ SetupDone /\ Len(wire) = 13 /\ gps = NoFix /\ ~NonZeroDigit(wire)
    /\ LatchedBy(wire, 2)[3] = <<12, 1>>
    /\ Latched(wire[13]) = <<<<8, 0>>, <<8, 0>>, <<8, 0>>>>

\* The data chip n latched last for register addr in the calls, -1 if none.
RECURSIVE LastWrite(_, _, _, _)
LastWrite(calls, k, n, addr) ==
    IF k = 0 THEN -1
    ELSE IF Latched(calls[k])[n][1] = addr THEN Latched(calls[k])[n][2]
    ELSE LastWrite(calls, k - 1, n, addr)

\* The scan limit chip n is given by initializeMax7219, and the digit positions
\* a MAX7219 drives with it: digits 0 .. limit, which are positions 1 .. limit + 1.
ScanLimit(n) == LastWrite(initializeMax7219, Len(initializeMax7219), n, 11)
Driven(n) == 1 .. (ScanLimit(n) + 1)

\* The positions at which chip n latched the characters from .. to (0-based) of
\* its row in this refresh.
PositionsOf(n, from, to) == {Latched(wire[i + 1])[n][1] : i \in from..to}

(***************************************************************************)
(* C13.  The two leading "00" of the time row go to the positions 8 and 7  *)
(* of the time chip and nowhere else, the six digits HHMMSS to the         *)
(* positions 6..1; the scan limit of that chip is 5, is set in setup()     *)
(* only, and drives exactly the positions 1..6.                            *)
(***************************************************************************)
C13_TimePaddingIsDark ==
    /\ Shown =>
          /\ rows.time[1] = "0" /\ rows.time[2] = "0" /\ Len(rows.time) = 8
          /\ Latched(wire[1])[2] = <<8, 126>> /\ Latched(wire[2])[2] = <<7, 126>>
          /\ PositionsOf(2, 0, 1) = {8, 7}
          /\ PositionsOf(2, 2, 7) = 1..6
          /\ PositionsOf(2, 2, 7) = Driven(2)
          /\ PositionsOf(2, 0, 1) \cap Driven(2) = {}
          /\ ScanLimit(2) = 5
    /\ ~SetupDone => LastWrite(wire, Len(wire), 2, 11) = -1

\* 23:15:20 UTC at offset -5: 18:15:20, the 1 on position 6 and the 0 on 1.
C13_Witness ==
    /\ Shown /\ gps.t = <<23, 15, 20>> /\ timeZoneOffsetHours = -5
    /\ Latched(wire[3])[2] = <<6, 48>> /\ Latched(wire[8])[2] = <<1, 126>>
    /\ Driven(2) = 1..6

(***************************************************************************)
(* C14.  The scan limit of the day-of-year chip is 4 and drives exactly    *)
(* five positions; these are the positions the last five characters of     *)
(* the Julian row are written to, and the characters in front of them go   *)
(* to positions that are not driven.                                       *)
(***************************************************************************)
C14_JulianScanLimitFitsFiveDigits ==
    (Shown /\ WholeSentence /\ UtcDateOk /\ gps.t[1] <= 23) =>
        /\ ScanLimit(1) = 4
        /\ Cardinality(Driven(1)) = 5
        /\ Len(rows.julian) >= 5
        /\ PositionsOf(1, Len(rows.julian) - 5, Len(rows.julian) - 1) = Driven(1)
        /\ PositionsOf(1, 0, Len(rows.julian) - 6) \cap Driven(1) = {}

\* 20 April 2025 with the year shown: the scan limit is 5, six positions are
\* driven, 25110 stands on the positions 6..2 and position 1 is blank.
C14_Witness ==
    /\ Shown /\ WholeSentence /\ gps.d = <<20, 4, 25>> /\ gps.t[1] = 5
    /\ julianDateConfiguration = 1
    /\ rows.julian = <<"0", "0", "2", "5", "1", "1", "0">>
    /\ ScanLimit(1) = 5 /\ Driven(1) = 1..6
    /\ PositionsOf(1, 2, 6) = 2..6
    /\ Latched(wire[8])[1] = <<1, 0>>

\* The segments that make up each digit 0 .. 9 on a seven-segment display.
LitSegments ==
    <<{"A", "B", "C", "D", "E", "F"}, {"B", "C"}, {"A", "B", "D", "E", "G"},
      {"A", "B", "C", "D", "G"}, {"B", "C", "F", "G"}, {"A", "C", "D", "F", "G"},
      {"A", "C", "D", "E", "F", "G"}, {"A", "B", "C"},
      {"A", "B", "C", "D", "E", "F", "G"}, {"A", "B", "C", "D", "F", "G"}>>

\* The byte with bit 6 for segment A, bit 5 for B, .. , bit 0 for G.
SegmentByte(lit) ==
    (IF "A" \in lit THEN 64 ELSE 0) + (IF "B" \in lit THEN 32 ELSE 0)
    + (IF "C" \in lit THEN 16 ELSE 0) + (IF "D" \in lit THEN 8 ELSE 0)
    + (IF "E" \in lit THEN 4 ELSE 0) + (IF "F" \in lit THEN 2 ELSE 0)
    + (IF "G" \in lit THEN 1 ELSE 0)

\* charToSevenSegment has returned.
Encoded == pc = "return" /\ call.fn = "charToSevenSegment"

EncodedDigit(d) == Encoded /\ call.args[1] = DigitChars[d]

(***************************************************************************)
(* C16, as stated.  In every pattern returned for 0 .. 9 the decimal point *)
(* is the least significant bit and is clear, and segment A is the most    *)
(* significant of the seven segment bits, the bit 7 above it.              *)
(***************************************************************************)
C16_DecimalPointIsLowestBit ==
    \A d \in 1..10 :
        EncodedDigit(d) =>
            /\ ret % 2 = 0
            /\ ((ret \div 128) % 2 = 1) <=> ("A" \in LitSegments[d])

(***************************************************************************)
(* C16, amended.  In every pattern returned for 0 .. 9 the decimal point   *)
(* is the most significant bit, bit 7, and is clear; segment A is bit 6,   *)
(* the most significant of the seven segment bits, and the least           *)
(* significant bit is segment G.                                           *)
(***************************************************************************)
C16_DecimalPointIsHighestBit ==
    \A d \in 1..10 :
        EncodedDigit(d) =>
            /\ ret \in 0..127
            /\ ((ret \div 64) % 2 = 1) <=> ("A" \in LitSegments[d])
            /\ (ret % 2 = 1) <=> ("G" \in LitSegments[d])

\* The pattern of 2 is 0x6d: bit 7 clear, bit 6 (A) set, bit 0 (G) set.
C16_Witness == EncodedDigit(3) /\ ret = 109 /\ ret % 2 = 1 /\ ret \div 64 = 1

\* A daysInMonth of one of the three revisions has returned.
MonthReturned ==
    pc = "return" /\ call.fn \in {"daysInMonth", "daysInMonth_v2_1", "daysInMonth_v2_0"}

\* Leap years by divisibility, on the absolute value of the year.
Divides(n, y) == (IF y < 0 THEN -y ELSE y) % n = 0
LeapYear(y) == Divides(4, y) /\ (~Divides(100, y) \/ Divides(400, y))

(***************************************************************************)
(* C17.  For every month 1..12 and every year daysInMonth returns the      *)
(* length of the month in the Gregorian calendar, 29 for February exactly  *)
(* when the year is divisible by 4 and not by 100, or by 400; the          *)
(* daysInMonth of v2.1 and of v2.0 return the same.                        *)
(***************************************************************************)
C17_DaysInMonthIsGregorian ==
    MonthReturned =>
        /\ call.args[1] \in {1, 3, 5, 7, 8, 10, 12} => ret = 31
        /\ call.args[1] \in {4, 6, 9, 11} => ret = 30
        /\ call.args[1] = 2 => ret = (IF LeapYear(call.args[2]) THEN 29 ELSE 28)
        /\ call.args = <<2, 2000>> => ret = 29
        /\ call.args = <<2, 2024>> => ret = 29
        /\ call.args = <<2, 1900>> => ret = 28
        /\ call.args = <<2, 2023>> => ret = 28

\* February 1900 has 28 days in v2.5.
C17_Witness ==
    MonthReturned /\ call.fn = "daysInMonth" /\ call.args = <<2, 1900>> /\ ret = 28

\* getNumberOfJulianDays has returned.
JulianReturned == pc = "return" /\ call.fn = "getNumberOfJulianDays"

\* The days of the months before month m of the year y.
RECURSIVE DaysBefore(_, _)
DaysBefore(m, y) == IF m = 1 THEN 0 ELSE DaysBefore(m - 1, y) + Gregorian(m - 1, y)

\* The date string of the day f as parseGPSData writes it.
StringOfDate(f) ==
    MakeDateStr(D2(f.day) \o D2(f.month) \o D2(f.year % 100), calendarConfiguration)

\* r is the day of the year of the date f, one more than that of the day before.
CountsDays(f, r) ==
    /\ r = DaysBefore(f.month, f.year) + f.day
    /\ r = DayOfYear(f.year, f.month, f.day)
    /\ (f.month = 1 /\ f.day = 1) => r = 1
    /\ ~(f.month = 1 /\ f.day = 1) =>
          r = 1 + getNumberOfJulianDays(StringOfDate(PrevDay(f.year, f.month, f.day)),
                                        calendarConfiguration, 0)
    /\ (f.month = 3 /\ f.day = 1) => r = (IF LeapYear(f.year) THEN 61 ELSE 60)
    /\ r \in 1..366

(***************************************************************************)
(* C18.  For every date of 2000..2099, in either date order,               *)
(* getNumberOfJulianDays returns the days of the months before the date's  *)
(* month plus the day: 1 on 1 January, one more than for the day before on *)
(* every other day, 60 on 1 March of a year that is no leap year and 61 on *)
(* 1 March of a leap year.                                                 *)
(***************************************************************************)
C18_JulianDaysCountsDays ==
    JulianReturned => CountsDays(DateOf(RowDigits(call.args[1])), ret)

\* 1 March 2025, month first: day 60.
C18_Witness ==
    /\ JulianReturned /\ calendarConfiguration = 0
    /\ call.args[1] = <<"0", "3", "0", "1", "2", "0", "2", "5">>
    /\ ret = 60

\* The eight characters of the date f in the order chosen by the switch.
Y4(y) == D2(y \div 100) \o D2(y % 100)
OrderedRow(f) ==
    IF calendarConfiguration = 1 THEN Y4(f.year) \o D2(f.month) \o D2(f.day)
    ELSE D2(f.month) \o D2(f.day) \o Y4(f.year)

UtcDate == [year |-> UtcYear, month |-> gps.d[2], day |-> gps.d[1]]
LocalDate == IF Underflow THEN PrevDay(UtcYear, gps.d[2], gps.d[1]) ELSE UtcDate

D3(n) == <<StringOf(n \div 100)[1]>> \o D2(n % 100)
\* Year (two digits) and day of the year (three digits) of the date f.
YearThenDay(f) == D2(f.year % 100) \o D3(DayOfYear(f.year, f.month, f.day))
\* The last five characters of the Julian string, and the digits sent for them.
LastFive(str) == SubSeq(str, Len(str) - 4, Len(str))
SentFive == [i \in 1..5 |-> SentRow(2)[Len(rows.julian) - 5 + i]]

(***************************************************************************)
(* C20.  With the Julian switch on year plus day-of-year, in either date   *)
(* order, the last five digits of the Julian row are the two-digit year of *)
(* the date in the date row followed by its day of the year in three       *)
(* digits (25001, never 00251), and those are the digits sent.             *)
(***************************************************************************)
C20_YearThenDayOfYear ==
    (Shown /\ WholeSentence /\ UtcDateOk /\ gps.t[1] <= 23
        /\ julianDateConfiguration = 1) =>
        /\ Len(rows.julian) >= 5
        /\ LastFive(rows.julian) = YearThenDay(LocalDate)
        /\ SentFive = [i \in 1..5 |-> DigitVal(YearThenDay(LocalDate)[i])]

\* 1 January 2025, 04:15:20 UTC at offset -5, year first: 20241231 with 24000.
C20_Witness ==
    /\ Shown /\ WholeSentence /\ Underflow
    /\ julianDateConfiguration = 1 /\ calendarConfiguration = 1
    /\ gps.d = <<1, 1, 25>>
    /\ rows.date = <<"2", "0", "2", "4", "1", "2", "3", "1">>
    /\ rows.julian = <<"0", "0", "2", "4", "0", "0", "0">>
    /\ SentFive = <<2, 4, 0, 0, 0>>

\* What the sentence of the last step gives under the configuration of the
\* last step with the Julian switch on year plus day-of-year.
WithYear == Parsed[gps, <<timeZoneOffsetHours, timeZoneOffsetMinutes,
                           calendarConfiguration, 1>>, 0].disp
\* The position addresses the last three characters of the Julian string of
\* a frame are sent to.
DayAddresses(frame) ==
    [k \in 1..3 |-> frame.wire[Len(frame.rows.julian) - 3 + k][1]]

(***************************************************************************)
(* C21.  With the Julian switch on day-of-year only, the Julian string is  *)
(* that of year plus day-of-year for the same sentence with the two year   *)
(* characters replaced by zeros, and the three day-of-year digits go to    *)
(* the same position addresses in both modes.                              *)
(***************************************************************************)
C21_DayOfYearOnlyKeepsPositions ==
    (Shown /\ WholeSentence /\ UtcDateOk /\ gps.t[1] <= 23
        /\ julianDateConfiguration = 0) =>
        /\ Len(rows.julian) = Len(WithYear.rows.julian)
        /\ \A i \in 1..Len(rows.julian) :
              rows.julian[i] = IF i \in {3, 4} THEN "0" ELSE WithYear.rows.julian[i]
        /\ DayAddresses([rows |-> rows, wire |-> wire]) = DayAddresses(WithYear)

\* 20 April 2025, 05:15:20 UTC: 00110 with the day on 6, 5, 4; with the year
\* it is 0025110 with the day on 4, 3, 2.
C21_Witness ==
    /\ Shown /\ WholeSentence /\ julianDateConfiguration = 0
    /\ gps.d = <<20, 4, 25>> /\ gps.t = <<5, 15, 20>>
    /\ rows.julian = <<"0", "0", "1", "1", "0">>
    /\ DayAddresses([rows |-> rows, wire |-> wire]) = <<6, 5, 4>>
    /\ WithYear.rows.julian = <<"0", "0", "2", "5", "1", "1", "0">>
    /\ DayAddresses(WithYear) = <<4, 3, 2>>

(***************************************************************************)
(* C25.  When the UTC hour plus the offset is below 0, the date string     *)
(* that parseGPSData holds after adjustDate has returned, which is the one *)
(* getNumberOfJulianDays and displayDateAndTime are given, is the calendar *)
(* day before the UTC date in the order of the date-order switch.          *)
(***************************************************************************)
C25_AdjustDateStepsBack ==
    (Shown /\ WholeSentence /\ UtcDateOk /\ gps.t[1] <= 23 /\ Underflow) =>
        dateStr = OrderedRow(PrevDay(UtcYear, gps.d[2], gps.d[1]))

\* 1 February 2024, 04:15:20 UTC at offset -5, year first: the string given
\* on is still 20240201, and the row shows 20240131.
C25_Witness ==
    /\ Shown /\ WholeSentence /\ Underflow /\ calendarConfiguration = 1
    /\ gps.d = <<1, 2, 24>>
    /\ dateStr = <<"2", "0", "2", "4", "0", "2", "0", "1">>
    /\ rows.date = <<"2", "0", "2", "4", "0", "1", "3", "1">>

\* Local time as parseGPSData works it out for the sentence of the last step.
Resolved == LocalTime(FieldOf(gps, 1), timeZoneOffsetHours, timeZoneOffsetMinutes)

(***************************************************************************)
(* C26.  In every reachable state timeZoneOffsetHours is -4 or -5 and      *)
(* timeZoneOffsetMinutes is 0.  Hence for a sentence with a UTC time of    *)
(* day (hour 0..23, minute and second 0..59) the hour before it is         *)
(* normalised is below 24, neither minute branch is taken (the result is   *)
(* that of lines 259-264 applied to the unchanged minutes), and the hour   *)
(* handed on is in 0..23 without any forward roll.                         *)
(***************************************************************************)
C26_OffsetsNeverRollForward ==
    /\ timeZoneOffsetHours \in {-4, -5}
    /\ timeZoneOffsetMinutes = 0
    /\ (Shown /\ UtcTimeOk) =>
          /\ gps.t[1] + timeZoneOffsetHours < 24
          /\ Resolved = Wrap(gps.t[1], gps.t[1] + timeZoneOffsetHours, gps.t[2], gps.t[3])
          /\ Resolved.localHours \in 0..23
          /\ rows.time = <<"0", "0">> \o D2(Resolved.localHours) \o D2(gps.t[2])
                           \o D2(gps.t[3])

\* 23:15:20 UTC at offset -4: 19 before and after normalisation.
C26_Witness ==
    /\ Shown /\ UtcTimeOk /\ gps.t = <<23, 15, 20>> /\ timeZoneOffsetHours = -4
    /\ Resolved.localHours = 19 /\ ~Resolved.underflow
    /\ rows.time = <<"0", "0", "1", "9", "1", "5", "2", "0">>

\* The months daysInMonth was called with for the sentence of the last step:
\* by getNumberOfJulianDays and by the step back of displayDateAndTime.
MonthsCounted == Parsed[gps, Config, 0].counted
MonthsSteppedTo == Parsed[gps, Config, 0].disp.months

(***************************************************************************)
(* C27.  For every accepted sentence, whatever the digits of its date      *)
(* field, daysInMonth is called with a month in 1..12 only, by             *)
(* getNumberOfJulianDays and by the step back of displayDateAndTime.       *)
(***************************************************************************)
C27_MonthIndexInRange ==
    Shown => (MonthsCounted \cup MonthsSteppedTo) \subseteq 1..12

\* Date field 010025 at 04:15:20 UTC, offset -5: month 0 is stepped back to
\* month -1; the frame is sent all the same.
C27_Witness ==
    /\ Shown /\ WholeSentence /\ Underflow
    /\ gps.d = <<1, 0, 25>>
    /\ MonthsCounted = {} /\ MonthsSteppedTo = {-1}
    /\ Len(wire) = 8

(***************************************************************************)
(* C22.  In every pass of loop() the configuration is read from the        *)
(* switches before the sentence of that pass is parsed: when a sentence is *)
(* taken up, the first after power-on included, the offset, the date order *)
(* and the Julian mode are those of the switch positions at that moment.   *)
(***************************************************************************)
C22_SwitchesReadBeforeSentence ==
    [][(pc = "serial" /\ pc' = "parse") => Config = ConfigOf(switches)]_vars

\* The first sentence after power-on, with the three switches at LOW, HIGH,
\* HIGH since power-on: formatted with the initial values -4, month first,
\* day-of-year only.
C22_Witness ==
    /\ pc = "switches" /\ Len(wire) = 8
    /\ switches = <<LOW, HIGH, HIGH>>
    /\ Config = <<-4, 0, 0, 0>>
    /\ gps.d = <<20, 4, 25>> /\ gps.t = <<5, 15, 20>>
    /\ rows.time = <<"0", "0", "0", "1", "1", "5", "2", "0">>
    /\ rows.date = <<"0", "4", "2", "0", "2", "0", "2", "5">>
    /\ rows.julian = <<"0", "0", "1", "1", "0">>

\* parseGPSData or displayDateAndTime is at work on a line; the line has
\* passed the test of line 232.
InPipeline == pc \in {"parse", "count", "display", "send"}
Accepted == pc \in {"count", "display", "send"}
\* The frames parseGPSData gives for the sentence under the configuration.
FramesOf(fix, cfg) == {Parsed[fix, cfg, junk].disp.wire : junk \in {0} \cup JunkValues}

(***************************************************************************)
(* C23.  From the read of a line to the last sendRegister call of its      *)
(* frame no switch is read and the offset, the date order and the Julian   *)
(* mode do not change, whatever is done to the switches meanwhile; an      *)
(* accepted sentence leaves parseGPSData only with its eight writes made,  *)
(* which are the frame of that sentence under that one configuration; and  *)
(* a line is read only after the switch reads that follow the line before. *)
(***************************************************************************)
C23_PipelineIsSynchronous ==
    [][/\ InPipeline => Config' = Config
       /\ Accepted => \/ pc' \in {"count", "display", "send"}
                      \/ /\ pc' = "switches"
                         /\ Len(wire') = 8
                         /\ wire' \in FramesOf(gps, Config)
       /\ pc' = "serial" => pc \in {"setup", "serial", "switches"}]_vars

\* The three switches were moved while the frame of 1 January 2025,
\* 04:15:20 UTC, was built and sent under offset -5, year first, with year.
C23_Witness ==
    /\ pc = "switches" /\ Len(wire) = 8
    /\ gps.d = <<1, 1, 25>>
    /\ Config = <<-5, 0, 1, 1>>
    /\ switches = <<HIGH, LOW, LOW>>
    /\ rows.date = <<"2", "0", "2", "4", "1", "2", "3", "1">>
    /\ wire \in FramesOf(gps, Config)

\* The frame worked out from the sentence and the configuration alone.
FrameOf(fix, cfg) == Parsed[fix, cfg, 0].disp.wire
FrameSent == pc = "switches" /\ Len(wire) = 8

(***************************************************************************)
(* C24.  The writes made for an accepted sentence are a function of the    *)
(* sentence and the configuration in force: whatever lines came before,    *)
(* and whatever they left in dateStr and julianDays, the eight writes are  *)
(* the same.                                                               *)
(***************************************************************************)
C24_FrameDependsOnSentenceAndConfig ==
    FrameSent => wire = FrameOf(gps, Config)

\* Date field 999999: the day count holds what lies behind the month table,
\* and the Julian bytes with it.
C24_Witness ==
    /\ FrameSent
    /\ gps.d = <<99, 99, 99>>
    /\ wire # FrameOf(gps, Config)
    /\ \A i \in 1..8 : wire[i][4] = FrameOf(gps, Config)[i][4]
    /\ \E i \in 1..8 : wire[i][2] # FrameOf(gps, Config)[i][2]

\* A send loop has run; the position-table indices it read; the addresses
\* of its eight passes for the chip whose address is byte col of a write.
Refreshed == pc = "return" /\ call.fn \in {f.fn : f \in LoopCalls}
IndicesRead == UNION {ret[k].reads : k \in 1..8}
AddressesOf(col) == [k \in 1..8 |-> ret[k].bytes[col]]
AddressColumns == {col \in 1..Len(ret[1].bytes) : col % 2 = 1}
EachOnce(addresses) ==
    \A p \in 1..8 : Cardinality({k \in 1..8 : addresses[k] = p}) = 1

(***************************************************************************)
(* C28.  In every revision a display refresh reads the eight-entry         *)
(* position table at indices 0..7 only, and sends each chip each position  *)
(* address 1..8 exactly once.                                              *)
(***************************************************************************)
C28_PositionIndexInRange ==
    Refreshed =>
        /\ IndicesRead \subseteq 0..7
        /\ \A col \in AddressColumns : EachOnce(AddressesOf(col))

\* The first sketch: index 8 is read in the last pass; the time chip gets
\* 7, 6, .., 1 and then what lies behind the table, never address 8.
C28_Witness ==
    /\ Refreshed /\ call.fn = "sendLoop_v1"
    /\ 8 \in IndicesRead
    /\ AddressesOf(1) = <<7, 6, 5, 4, 3, 2, 1, 77>>
    /\ AddressesOf(3) = <<8, 7, 6, 5, 4, 3, 2, 1>>

\* setup() has run; entry k of what it did is a register write; the pin was
\* made an output before entry k.
SetUp == pc = "return" /\ call.fn \in {f.fn : f \in SetupCalls}
IsWrite(k) == ret[k][1] = "write"
OutputBefore(pin, k) == \E j \in 1..(k - 1) : ret[j] = pinMode(pin, "OUTPUT")
ChipPins == {"MAX7219_CLK", "MAX7219_CS", "MAX7219_DIN"}

(***************************************************************************)
(* C29.  In every revision setup() makes the clock, chip-select and data   *)
(* pins outputs before the first register write of initializeMax7219: no   *)
(* write comes before the three pinMode calls.                             *)
(***************************************************************************)
C29_PinsConfiguredBeforeWrites ==
    SetUp => \A k \in 1..Len(ret) :
                IsWrite(k) => \A pin \in ChipPins : OutputBefore(pin, k)

\* The first sketch: the thirteen writes of initializeMax7219 come first,
\* the pins are made outputs after them.
C29_Witness ==
    /\ SetUp /\ call.fn = "setup_v1"
    /\ ret[2] = <<"write", <<REG_SCAN_LIMIT, 5, REG_SCAN_LIMIT, 7>>>>
    /\ IsWrite(14)
    /\ \A pin \in ChipPins : ~OutputBefore(pin, 14)
    /\ ret[17] = pinMode("MAX7219_CLK", "OUTPUT")

\* v2.1 has shown the sentence of the call; the UTC date it carried, and the
\* date the display was given.
Shown_v2_1 == pc = "return" /\ call.fn = "parseGPSData_v2_1" /\ ret.shown
UtcDate_v2_1 ==
    [year |-> 2000 + call.args[1].d[3], month |-> call.args[1].d[2], day |-> call.args[1].d[1]]
Underflow_v2_1 == call.args[1].t[1] + timeZoneOffsetHours < 0
DayBefore_v2_1 == PrevDay(UtcDate_v2_1.year, UtcDate_v2_1.month, UtcDate_v2_1.day)
RowOf(f) == Y4(f.year) \o D2(f.month) \o D2(f.day)

(***************************************************************************)
(* C30.  In v2.1, under either offset (-4 or -5): if UTC hour + offset is  *)
(* below 0 the date shown is the day before the UTC date and the day count *)
(* is the day of the year of that day; otherwise the date shown is the UTC *)
(* date.                                                                   *)
(***************************************************************************)
C30_BandAgreesWithUnderflow_v2_1 ==
    Shown_v2_1 =>
        IF Underflow_v2_1
        THEN /\ ret.date = RowOf(DayBefore_v2_1)
             /\ ret.numberOfDays
                   = DayOfYear(DayBefore_v2_1.year, DayBefore_v2_1.month, DayBefore_v2_1.day)
        ELSE ret.date = RowOf(UtcDate_v2_1)

\* Offset -5, 00:15:20 UTC on 20 April 2025: local time 19:15:20 of the 19th
\* is shown with the date of the 20th and day 110.
C30_Witness ==
    /\ Shown_v2_1
    /\ timeZoneOffsetHours = daylightSavingsTimeOff
    /\ call.args[1].t = <<0, 15, 20>> /\ call.args[1].d = <<20, 4, 25>>
    /\ Underflow_v2_1
    /\ ret.time = <<"0", "0", "1", "9", "1", "5", "2", "0">>
    /\ ret.date = StringOf(20250420)
    /\ ret.numberOfDays = 110
    /\ Len(ret.wire) = 8

====
